---- MODULE Spec2Model ----
(***************************************************************************)
(* Malaphor: graph-learning anomaly detection over cloud resource graphs.  *)
(*                                                                         *)
(* The module models                                                       *)
(*   - CloudSecurityGraphGenerator (backend/data/graph_dataset.py): the    *)
(*     synthetic graph generator and its five anomaly patterns,            *)
(*   - CloudResourceGraph (same file): fit_encoders / process_graph,       *)
(*   - the dataset construction of training/run_training.py,               *)
(*   - CloudSecurityInference (backend/inference/inference.py),            *)
(*   - the background analysis task of backend/api/main.py,                *)
(*   - CloudSecurityTrainer.train (backend/training/train.py) with the     *)
(*     end of run_training.py's main.                                      *)
(*                                                                         *)
(* Conventions.  A Python f-string id such as f'node-{i}' is the tuple     *)
(* <<"node", i>>: formatting is injective and the tuple keeps exactly the  *)
(* information of the string.  A call of np.random is a nondeterministic   *)
(* choice over the values the call can return.  Scores are hundredths      *)
(* (0.7 is 70).  Python's None is the record None for a descriptor and the *)
(* string "None" for an object reference.                                  *)
(***************************************************************************)
EXTENDS Integers, Sequences, FiniteSets, TLC

VARIABLES
    \* ---- generator (CloudSecurityGraphGenerator) ----
    gen_pc,        \* position of generate_dataset's loop body / pattern driver
    nodes,         \* graph['nodes']
    edges,         \* graph['edges']
    anomalies,     \* graph['anomalies']
    node_labels,   \* graph['node_labels']
    label,         \* graph['label'], -1 while the key is absent
    pattern,       \* name of the pattern function called, "none" if none
    pre_nodes,     \* the nodes list as passed to the pattern function
    pre_edges,     \* the edges list as passed to the pattern function
    result,        \* the pattern function's return value
    graphs_len,    \* len(graphs), the list generate_dataset returns
    node_y,        \* data.node_y built by CloudSecurityDataset.process
    \* ---- featurizer (CloudResourceGraph) ----
    feat_pc,       \* "new", "fitted", "transformed"; "off" outside its specs
    processor,     \* the CloudResourceGraph object's attributes
    corpus,        \* the list of graphs whose fits are compared
    fit_history,   \* the vocabularies produced by the successive fits
    raised,        \* exception raised by the last featurizer call, or "none"
    transform,     \* name of the graph-to-tensor function last called
    graph_arg,     \* the graph passed to that function
    data,          \* the Data object it returned
    \* ---- dataset construction (training/run_training.py main) ----
    train_pc,      \* position in main; "off" outside its specification
    graphs,        \* the generated list of graphs that main splits
    train_dataset, \* CloudSecurityDataset of graphs[:num_train]
    val_dataset,   \* CloudSecurityDataset of the validation slice
    test_dataset,  \* CloudSecurityDataset of the remaining graphs
    \* ---- inference engine (CloudSecurityInference) ----
    inf_pc,        \* "ready", "returned", "raised"; "off" outside its specs
    threshold,     \* self.threshold, in hundredths
    graph_processor, \* self.graph_processor, a CloudResourceGraph
    inf_graph,     \* the graph passed to the engine
    predictions,   \* the model's per-node output for that graph
    findings,      \* the list detect_anomalies returned
    \* ---- _determine_severity on its own ----
    sev_pc,        \* "call", "returned"; "off" outside its specification
    sev_confidence, \* the argument, in hundredths
    severity,      \* the string returned, "none" before the call
    \* ---- api/main.py: module globals and the analysis task ----
    api_pc,        \* "idle", "done"; "off" outside its specification
    api_engine,    \* the inference_engine object handed to the task
    api_anomalies, \* the global `anomalies`
    metrics,       \* the global `metrics`
    analysis_in_progress, \* the global flag
    api_raised,    \* the exception the task caught, or "none"
    \* ---- CloudSecurityTrainer.train and the end of run_training main ----
    tr_pc,         \* position in train / main; "off" outside its spec
    num_epochs,    \* argument of train
    patience,      \* argument of train
    val_has_positive,  \* the labels of val_loader hold a positive label
    test_has_positive, \* the labels of test_loader hold a positive label
    val_aucs,      \* self.val_aucs, in hundredths
    val_aps,       \* self.val_aps, in hundredths
    best_val_auc,  \* local of train
    best_epoch,    \* local of train (0-based)
    patience_counter, \* local of train
    weights,       \* the model's weights: the number of epochs that made them
    checkpoint,    \* the file output_dir/best_model.pt
    eval_metrics,  \* the dict evaluate returned
    tr_raised,     \* the exception that ended main, or "none"
    \* ---- get_inference_engine of backend/main.py and backend/api/main.py ----
    eng_app,       \* the application that runs: its module name, or "off"
    model_file,    \* what the file at MODEL_PATH is
    config_file,   \* model_config.json beside it: "present" or "missing"
    inference_engine, \* the module global: "None" or the engine's class name
    loads,         \* the constructions attempted so far, in order
    eng_status,    \* how the last get_inference_engine call ended
    \* ---- a SecurityAnalyzer: NetworkAnalyzer or IAMAnalyzer ----
    net_pc,        \* "off", "call" (before analyze) or "returned"
    graph_data,    \* the argument of analyze
    net_findings,  \* self.findings
    net_result,    \* the list analyze returned
    \* ---- api/main.py: the request handlers around the analysis task ----
    cloud_graph,   \* the global `cloud_graph`
    pending,       \* the background tasks added and not yet run, in order
    posts,         \* the POST /api/analyze requests handled so far
    response,      \* what the last handler returned
    \* ---- ChangeTracker ----
    ct_pc,         \* "off", "call" (before track_changes) or "returned"
    current_state, \* first argument of the last track_changes call
    previous_state, \* its second argument
    changes,       \* self.changes
    storage,       \* the list in the file at storage_path
    new_changes    \* the list the last track_changes call returned

genVars == <<gen_pc, nodes, edges, anomalies, node_labels, label, pattern,
             pre_nodes, pre_edges, result, graphs_len, node_y>>

featVars == <<feat_pc, processor, corpus, fit_history, raised, transform,
              graph_arg, data>>

trainVars == <<train_pc, graphs, train_dataset, val_dataset, test_dataset>>

infVars == <<inf_pc, threshold, graph_processor, inf_graph, predictions,
             findings>>

sevVars == <<sev_pc, sev_confidence, severity>>

apiVars == <<api_pc, api_engine, api_anomalies, metrics,
             analysis_in_progress, api_raised>>

trainerVars == <<tr_pc, num_epochs, patience, val_has_positive,
                 test_has_positive, val_aucs, val_aps, best_val_auc,
                 best_epoch, patience_counter, weights, checkpoint,
                 eval_metrics, tr_raised>>

engVars == <<eng_app, model_file, config_file, inference_engine, loads,
             eng_status>>

netVars == <<net_pc, graph_data, net_findings, net_result>>

srvVars == <<cloud_graph, pending, posts, response>>

ctVars == <<ct_pc, current_state, previous_state, changes, storage,
            new_changes>>

lateVars == <<srvVars, ctVars>>

baseVars == <<genVars, featVars, trainVars, infVars>>

\* the variables of the parts added to the first four
restVars == <<sevVars, apiVars, trainerVars, engVars, netVars,
    lateVars>>

\* all variables but those of one part
notSevVars == <<baseVars, apiVars, trainerVars, engVars, netVars,
    lateVars>>

notApiVars == <<baseVars, sevVars, trainerVars, engVars, netVars,
    lateVars>>

notTrainerVars == <<baseVars, sevVars, apiVars, engVars, netVars,
    lateVars>>

notEngVars == <<baseVars, sevVars, apiVars, trainerVars, netVars,
    lateVars>>

notNetVars == <<baseVars, sevVars, apiVars, trainerVars, engVars,
    lateVars>>

\* for the request handlers: the task's globals are theirs too
notSrvVars == <<baseVars, sevVars, trainerVars, engVars, netVars, ctVars>>

notCtVars == <<baseVars, sevVars, apiVars, trainerVars, engVars, netVars,
               srvVars>>

vars == <<genVars, featVars, trainVars, infVars, restVars>>

----------------------------------------------------------------------------
\* Bounds of the model

\* largest num_nodes handed to generate_graph
MaxNodes == 3
\* np.random.random() < edge_probability can succeed only in the first
\* MaxTrials iterations of generate_graph's (i, j) double loop
MaxTrials == 3
\* num_relationship_types given to the generator's constructor
NumRelationshipTypes == 2
\* extra storage nodes appended to the graphs the patterns are applied to
MaxExtraNodes == 4

----------------------------------------------------------------------------
\* CloudSecurityGraphGenerator.__init__

num_resource_types == 5

resource_types ==
    SubSeq(<<"compute", "storage", "network", "identity", "database",
             "container", "serverless", "monitoring", "security", "other">>,
           1, num_resource_types)

relationship_types ==
    SubSeq(<<"contains", "connects", "accesses", "reads", "writes",
             "executes", "manages", "monitors", "secures", "depends_on",
             "trusts", "authenticates", "authorizes", "logs", "backs_up">>,
           1, NumRelationshipTypes)

anomaly_patterns ==
    <<"excessive_permissions", "unusual_access", "insecure_configuration",
      "privilege_escalation", "data_exfiltration">>

----------------------------------------------------------------------------
\* Helpers

Min(a, b) == IF a < b THEN a ELSE b

Range(s) == {s[k] : k \in 1..Len(s)}

\* f'node-{i}'
NodeId(i) == <<"node", i>>

public_node_id == <<"public-internet", 0>>

external_node_id == <<"external-endpoint", 0>>

\* Python's None as a pattern's return value
None == [type |-> "None", description |-> "", affected_nodes |-> <<>>,
         severity |-> ""]

NodeIds(ns) == {ns[k].id : k \in 1..Len(ns)}

NodesOfGroups(ns, groups) ==
    LET InGroups(n) == n.group \in groups IN SelectSeq(ns, InGroups)

NodesNotOfGroups(ns, groups) ==
    LET NotInGroups(n) == n.group \notin groups IN SelectSeq(ns, NotInGroups)

----------------------------------------------------------------------------
\* The five anomaly patterns.  Each operator is the set of the outcomes the
\* function can produce on (nodes, edges), one per result of its
\* np.random.choice calls: the lists after the call (Python mutates them in
\* place) and the returned descriptor.

Outcome(ns, es, res) == [nodes |-> ns, edges |-> es, result |-> res]

\* mutant of AnomalyEdge: the second edge of a path gets the id of the first
AnomalyEdgeNoSuffix(n, suffix, from, to, rel) ==
    [id |-> <<"anomaly-edge", n, 0>>, from |-> from, to |-> to,
     label |-> rel]

AnomalyEdge(n, suffix, from, to, rel) ==
    [id |-> <<"anomaly-edge", n, suffix>>, from |-> from, to |-> to,
     label |-> rel]

\* mutant of SensitiveTargets: the slice is dropped
SensitiveTargetsUncapped(sensitive_nodes) == sensitive_nodes

\* sensitive_nodes[:min(5, len(sensitive_nodes))]
SensitiveTargets(sensitive_nodes) ==
    SubSeq(sensitive_nodes, 1, Min(5, Len(sensitive_nodes)))

\* mutant of EnsureNode: the singleton node is never appended
EnsureNodeSkipped(ns, node) == ns

\* "add the node if it doesn't exist": any(node['id'] == id ...), append
EnsureNode(ns, node) ==
    IF \E k \in 1..Len(ns) : ns[k].id = node.id THEN ns ELSE Append(ns, node)

public_node ==
    [id |-> public_node_id, label |-> <<"Public Internet", 0>>,
     group |-> "network"]

external_node ==
    [id |-> external_node_id, label |-> <<"External Endpoint", 0>>,
     group |-> "network"]

excessive_permissions_pattern(ns, es) ==
    LET identity_nodes == NodesOfGroups(ns, {"identity"})
        sensitive_nodes == NodesOfGroups(ns, {"database", "storage"})
        targets == SensitiveTargets(sensitive_nodes)
    IN  IF identity_nodes = <<>> THEN {Outcome(ns, es, None)}
        ELSE IF sensitive_nodes = <<>> THEN {Outcome(ns, es, None)}
        ELSE { LET identity_node == identity_nodes[c]
                   new_edges == [k \in 1..Len(targets) |->
                       AnomalyEdge(Len(es) + (k - 1), 0, identity_node.id,
                                   targets[k].id, "writes")]
               IN  Outcome(ns, es \o new_edges,
                     [type |-> "excessive_permissions",
                      description |->
                        "Identity has excessive permissions to sensitive resources",
                      affected_nodes |-> <<identity_node.id>> \o
                          [k \in 1..Len(targets) |-> targets[k].id],
                      severity |-> "high"])
               : c \in 1..Len(identity_nodes) }

\* mutant of unusual_access_pattern: the target is drawn from all compute
\* nodes, the source included
unusual_access_any_target(ns, es) ==
    LET compute_nodes == NodesOfGroups(ns, {"compute"})
    IN  IF Len(compute_nodes) < 2 THEN {Outcome(ns, es, None)}
        ELSE { Outcome(ns,
                 Append(es, AnomalyEdge(Len(es), 0, compute_nodes[c[1]].id,
                                        compute_nodes[c[2]].id, "executes")),
                 [type |-> "unusual_access",
                  description |->
                    "Compute instance accessing another compute instance in an unusual way",
                  affected_nodes |-> <<compute_nodes[c[1]].id,
                                       compute_nodes[c[2]].id>>,
                  severity |-> "medium"])
               : c \in (1..Len(compute_nodes)) \X (1..Len(compute_nodes)) }

unusual_access_pattern(ns, es) ==
    LET compute_nodes == NodesOfGroups(ns, {"compute"})
    IN  IF Len(compute_nodes) < 2 THEN {Outcome(ns, es, None)}
        ELSE UNION {
          LET source_node == compute_nodes[c]
              NotSource(n) == n.id # source_node.id
              target_nodes == SelectSeq(compute_nodes, NotSource)
          IN  { Outcome(ns,
                  Append(es, AnomalyEdge(Len(es), 0, source_node.id,
                                         target_nodes[d].id, "executes")),
                  [type |-> "unusual_access",
                   description |->
                     "Compute instance accessing another compute instance in an unusual way",
                   affected_nodes |-> <<source_node.id, target_nodes[d].id>>,
                   severity |-> "medium"])
                : d \in 1..Len(target_nodes) }
          : c \in 1..Len(compute_nodes) }

\* mutant of insecure_configuration_pattern: the public node is added
\* before the storage nodes are looked for
insecure_configuration_eager(ns, es) ==
    LET storage_nodes == NodesOfGroups(ns, {"storage"})
        ns2 == EnsureNode(ns, public_node)
    IN  IF storage_nodes = <<>> THEN {Outcome(ns2, es, None)}
        ELSE { Outcome(ns2,
                 Append(es, AnomalyEdge(Len(es), 0, public_node_id,
                                        storage_nodes[c].id, "reads")),
                 [type |-> "insecure_configuration",
                  description |-> "Storage resource is publicly accessible",
                  affected_nodes |-> <<storage_nodes[c].id>>,
                  severity |-> "critical"])
               : c \in 1..Len(storage_nodes) }

insecure_configuration_pattern(ns, es) ==
    LET storage_nodes == NodesOfGroups(ns, {"storage"})
        ns2 == EnsureNode(ns, public_node)
    IN  IF storage_nodes = <<>> THEN {Outcome(ns, es, None)}
        ELSE { Outcome(ns2,
                 Append(es, AnomalyEdge(Len(es), 0, public_node_id,
                                        storage_nodes[c].id, "reads")),
                 [type |-> "insecure_configuration",
                  description |-> "Storage resource is publicly accessible",
                  affected_nodes |-> <<storage_nodes[c].id>>,
                  severity |-> "critical"])
               : c \in 1..Len(storage_nodes) }

privilege_escalation_pattern(ns, es) ==
    LET identity_nodes == NodesOfGroups(ns, {"identity"})
        intermediate_nodes == NodesNotOfGroups(ns, {"identity"})
    IN  IF Len(identity_nodes) < 2 THEN {Outcome(ns, es, None)}
        ELSE IF intermediate_nodes = <<>> THEN {Outcome(ns, es, None)}
        ELSE UNION {
          LET low_priv_node == identity_nodes[c]
              NotLow(n) == n.id # low_priv_node.id
              high_priv_nodes == SelectSeq(identity_nodes, NotLow)
          IN  { LET high_priv_node == high_priv_nodes[d[1]]
                    intermediate_node == intermediate_nodes[d[2]]
                    edge1 == AnomalyEdge(Len(es), 0, low_priv_node.id,
                                         intermediate_node.id, "writes")
                    edge2 == AnomalyEdge(Len(es), 2, intermediate_node.id,
                                         high_priv_node.id, "trusts")
                IN  Outcome(ns, es \o <<edge1, edge2>>,
                      [type |-> "privilege_escalation",
                       description |->
                         "Potential privilege escalation path detected",
                       affected_nodes |-> <<low_priv_node.id,
                           intermediate_node.id, high_priv_node.id>>,
                       severity |-> "critical"])
                : d \in (1..Len(high_priv_nodes)) \X
                        (1..Len(intermediate_nodes)) }
          : c \in 1..Len(identity_nodes) }

data_exfiltration_pattern(ns, es) ==
    LET storage_nodes == NodesOfGroups(ns, {"storage", "database"})
        compute_nodes == NodesOfGroups(ns, {"compute"})
        ns2 == EnsureNode(ns, external_node)
    IN  IF storage_nodes = <<>> \/ compute_nodes = <<>>
        THEN {Outcome(ns, es, None)}
        ELSE { LET storage_node == storage_nodes[c[1]]
                   compute_node == compute_nodes[c[2]]
                   edge1 == AnomalyEdge(Len(es), 0, compute_node.id,
                                        storage_node.id, "reads")
                   edge2 == AnomalyEdge(Len(es) + 1, 0, compute_node.id,
                                        external_node_id, "writes")
               IN  Outcome(ns2, es \o <<edge1, edge2>>,
                     [type |-> "data_exfiltration",
                      description |->
                        "Potential data exfiltration path detected",
                      affected_nodes |-> <<compute_node.id, storage_node.id,
                                           external_node_id>>,
                      severity |-> "critical"])
               : c \in (1..Len(storage_nodes)) \X (1..Len(compute_nodes)) }

\* anomaly_pattern(nodes, edges) for the pattern np.random.choice picked
ApplyPattern(name, ns, es) ==
    CASE name = "excessive_permissions" -> excessive_permissions_pattern(ns, es)
      [] name = "unusual_access" -> unusual_access_pattern(ns, es)
      [] name = "insecure_configuration" -> insecure_configuration_pattern(ns, es)
      [] name = "privilege_escalation" -> privilege_escalation_pattern(ns, es)
      [] name = "data_exfiltration" -> data_exfiltration_pattern(ns, es)

\* mutant of generate_node_labels: only the first affected node is marked
generate_node_labels_first(ns, es, anoms) ==
    LET affected == {anoms[a].affected_nodes[1] : a \in 1..Len(anoms)}
    IN  [id \in NodeIds(ns) \cup affected |->
            IF id \in affected THEN 1 ELSE 0]

\* _generate_node_labels: 0 for every node, then 1 for every affected id
\* (a dict assignment, so an affected id that is no node gains a key)
generate_node_labels(ns, es, anoms) ==
    LET affected == UNION {Range(anoms[a].affected_nodes) : a \in 1..Len(anoms)}
    IN  [id \in NodeIds(ns) \cup affected |->
            IF id \in affected THEN 1 ELSE 0]

----------------------------------------------------------------------------
\* generate_graph

\* lines 282-291: num_nodes nodes, each of a type np.random.choice picks
RandomNodes(num_nodes) ==
    { [i \in 1..num_nodes |->
          [id |-> NodeId(i - 1),
           label |-> <<resource_types[t[i]], i - 1>>,
           group |-> resource_types[t[i]]]]
      : t \in [1..num_nodes -> 1..Len(resource_types)] }

\* lines 293-307: the double loop over (i, j); iteration number q (from 0)
\* is the pair (q \div num_nodes, q % num_nodes).  hit[q] says whether
\* i != j and np.random.random() < edge_probability held in iteration q,
\* rel[q] is the index np.random.choice(self.relationship_types) picked.
RECURSIVE EdgeLoop(_, _, _, _, _)
EdgeLoop(num_nodes, q, hit, rel, es) ==
    IF q >= num_nodes * num_nodes \/ q >= MaxTrials THEN es
    ELSE LET i == q \div num_nodes
             j == q % num_nodes
         IN  IF i # j /\ hit[q]
             THEN EdgeLoop(num_nodes, q + 1, hit, rel,
                    Append(es, [id |-> <<"edge", Len(es), 0>>,
                                from |-> NodeId(i), to |-> NodeId(j),
                                label |-> relationship_types[rel[q]]]))
             ELSE EdgeLoop(num_nodes, q + 1, hit, rel, es)

RandomEdges(num_nodes) ==
    { EdgeLoop(num_nodes, 0, hit, rel, <<>>)
      : hit \in [0..(MaxTrials - 1) -> BOOLEAN],
        rel \in [0..(MaxTrials - 1) -> 1..Len(relationship_types)] }

Graph(ns, es, anoms, pat, ns0, es0, res) ==
    [nodes |-> ns, edges |-> es, anomalies |-> anoms,
     node_labels |-> generate_node_labels(ns, es, anoms),
     pattern |-> pat, pre_nodes |-> ns0, pre_edges |-> es0, result |-> res]

\* mutant of InjectAnomalies: the result is appended without the
\* `if anomaly_result` test
InjectAnomaliesUnchecked(ns, es) ==
    {Graph(ns, es, <<>>, "none", ns, es, None)} \cup
    UNION { { Graph(o.nodes, o.edges, <<o.result>>,
                    anomaly_patterns[p], ns, es, o.result)
              : o \in ApplyPattern(anomaly_patterns[p], ns, es) }
            : p \in 1..Len(anomaly_patterns) }

\* lines 309-323: with np.random.random() < anomaly_probability one pattern
\* is picked and called; a truthy result is appended to anomalies
InjectAnomalies(ns, es) ==
    {Graph(ns, es, <<>>, "none", ns, es, None)} \cup
    UNION { { Graph(o.nodes, o.edges,
                    IF o.result # None THEN <<o.result>> ELSE <<>>,
                    anomaly_patterns[p], ns, es, o.result)
              : o \in ApplyPattern(anomaly_patterns[p], ns, es) }
            : p \in 1..Len(anomaly_patterns) }

\* mutant of generate_graph: a second pattern is drawn and applied to the
\* graph the first draw left
generate_graph_two_patterns(ns, es) ==
    UNION { { Graph(h.nodes, h.edges, g.anomalies \o h.anomalies, h.pattern,
                    ns, es, h.result)
              : h \in InjectAnomalies(g.nodes, g.edges) }
            : g \in InjectAnomalies(ns, es) }

\* every graph generate_graph(num_nodes, ...) can return from the nodes ns
\* and edges es its first two loops built
generate_graph(ns, es) == InjectAnomalies(ns, es)

----------------------------------------------------------------------------
\* CloudResourceGraph: fit_encoders and process_graph

\* a dict that does not hold the key read ('group' of a node, 'label' of an
\* edge)
NoKey == "<no key>"

\* the strings of the model in Python's str order, which sorted() uses
NameOrder ==
    <<"accesses", "authenticates", "authorizes", "backs_up", "compute",
      "connects", "container", "contains", "database", "depends_on",
      "executes", "identity", "logs", "manages", "monitoring", "monitors",
      "network", "other", "reads", "secures", "security", "serverless",
      "storage", "trusts", "unknown", "writes">>

NameRank(s) == CHOOSE k \in 1..Len(NameOrder) : NameOrder[k] = s

StrLess(a, b) == NameRank(a) < NameRank(b)

RECURSIVE sorted(_)
\* sorted(S) of a set of strings
sorted(S) ==
    IF S = {} THEN <<>>
    ELSE LET least == CHOOSE a \in S : \A b \in S : ~StrLess(b, a)
         IN  <<least>> \o sorted(S \ {least})

RECURSIVE Concat(_)
Concat(seqs) ==
    IF seqs = <<>> THEN <<>> ELSE Head(seqs) \o Concat(Tail(seqs))

RECURSIVE Distinct(_)
\* the values of s in the order of their first occurrence
Distinct(s) ==
    IF s = <<>> THEN <<>>
    ELSE LET r == Distinct(SubSeq(s, 1, Len(s) - 1))
         IN  IF s[Len(s)] \in Range(r) THEN r ELSE Append(r, s[Len(s)])

HasKey(v) == v # NoKey

\* lines 44-48: the groups met by the two nested loops, in the order met
SeenNodeTypes(gs) ==
    LET all == Concat([k \in 1..Len(gs) |-> gs[k].nodes])
    IN  Distinct(SelectSeq([k \in 1..Len(all) |-> all[k].group], HasKey))

\* lines 51-55: the labels met by the two nested loops, in the order met
SeenEdgeTypes(gs) ==
    LET all == Concat([k \in 1..Len(gs) |-> gs[k].edges])
    IN  Distinct(SelectSeq([k \in 1..Len(all) |-> all[k].label], HasKey))

\* mutant of VocabularyOrder: the values are numbered in the order met
VocabularyOrderAsMet(seen) == seen

\* lines 58-59: the values are held in a set and numbered after sorted()
VocabularyOrder(seen) == sorted(Range(seen))

\* {t: i for i, t in enumerate(order)}
Enumerate(order) ==
    [t \in Range(order) |->
        (CHOOSE k \in 1..Len(order) : order[k] = t) - 1]

\* CloudResourceGraph.__init__
NewCloudResourceGraph ==
    [node_type_mapping |-> <<>>, edge_type_mapping |-> <<>>,
     node_type_encoder |-> "None", edge_type_encoder |-> "None"]

\* fit_encoders: the object's attributes after the call and the exception
\* that ended it.  OneHotEncoder.fit raises ValueError on an array without a
\* sample, after both mappings and the encoder attribute are assigned (with
\* a scikit-learn release whose OneHotEncoder takes the `sparse` argument).
fit_encoders(self, gs) ==
    LET node_seen == SeenNodeTypes(gs)
        edge_seen == SeenEdgeTypes(gs)
    IN  [self |->
            [node_type_mapping |-> Enumerate(VocabularyOrder(node_seen)),
             edge_type_mapping |-> Enumerate(VocabularyOrder(edge_seen)),
             node_type_encoder |->
                IF node_seen = <<>> THEN "unfitted" ELSE "fitted",
             edge_type_encoder |->
                IF node_seen = <<>> THEN self.edge_type_encoder
                ELSE IF edge_seen = <<>> THEN "unfitted" ELSE "fitted"],
         raised |->
            IF node_seen = <<>> \/ edge_seen = <<>>
            THEN "ValueError" ELSE "none"]

\* the vocabularies of a featurizer
Vocabulary(self) ==
    [node_type_mapping |-> self.node_type_mapping,
     edge_type_mapping |-> self.edge_type_mapping]

\* a two-dimensional tensor: its shape and its rows
Tensor(shape, rows) == [shape |-> shape, rows |-> rows]

\* mutant of OneHot: a value outside the mapping is given the first column
OneHotUnknownFirst(mapping, value) ==
    [c \in 1..Cardinality(DOMAIN mapping) |->
        IF value \in DOMAIN mapping
        THEN (IF mapping[value] = c - 1 THEN 1 ELSE 0)
        ELSE (IF c = 1 THEN 1 ELSE 0)]

\* lines 94-97 and 118-121: a row of zeros of the mapping's length, with a 1
\* at the value's index if the value is in the mapping
OneHot(mapping, value) ==
    [c \in 1..Cardinality(DOMAIN mapping) |->
        IF value \in DOMAIN mapping /\ mapping[value] = c - 1
        THEN 1 ELSE 0]

\* {node['id']: i for i, node in enumerate(nodes)}: the last node of an id
\* wins
NodeIdToIdx(ns) ==
    [id \in NodeIds(ns) |->
        (CHOOSE k \in 1..Len(ns) :
            ns[k].id = id /\ \A j \in (k + 1)..Len(ns) : ns[j].id # id) - 1]

\* dict.get(key, 'unknown')
GetOrUnknown(v) == IF HasKey(v) THEN v ELSE "unknown"

\* torch.tensor(pairs).t(): the row of sources and the row of targets
Transpose(pairs) ==
    <<[j \in 1..Len(pairs) |-> pairs[j][1]],
      [j \in 1..Len(pairs) |-> pairs[j][2]]>>

\* process_graph (lines 71-147)
process_graph(self, graph) ==
    LET ns == graph.nodes
        node_id_to_idx == NodeIdToIdx(ns)
        num_nodes == Len(ns)
        node_types == [k \in 1..Len(ns) |-> GetOrUnknown(ns[k].group)]
        node_type_features ==
            [k \in 1..num_nodes |->
                OneHot(self.node_type_mapping, node_types[k])]
        Known(e) == e.from \in DOMAIN node_id_to_idx
                    /\ e.to \in DOMAIN node_id_to_idx
        kept == SelectSeq(graph.edges, Known)
        edge_index ==
            [j \in 1..Len(kept) |->
                <<node_id_to_idx[kept[j].from], node_id_to_idx[kept[j].to]>>]
        edge_attr ==
            [j \in 1..Len(kept) |->
                OneHot(self.edge_type_mapping, GetOrUnknown(kept[j].label))]
        num_edge_types == Cardinality(DOMAIN self.edge_type_mapping)
    IN  [x |-> Tensor(<<num_nodes, Cardinality(DOMAIN self.node_type_mapping)>>,
                      node_type_features),
         edge_index |->
            IF edge_index # <<>>
            THEN Tensor(<<2, Len(edge_index)>>, Transpose(edge_index))
            ELSE Tensor(<<2, 0>>, <<<<>>, <<>>>>),
         edge_attr |->
            IF edge_index # <<>>
            THEN Tensor(<<Len(edge_attr), num_edge_types>>, edge_attr)
            ELSE Tensor(<<0, num_edge_types>>, <<>>),
         num_nodes |-> num_nodes,
         node_ids |-> [k \in 1..Len(ns) |-> ns[k].id],
         node_labels |-> [k \in 1..Len(ns) |-> ns[k].label],
         node_types |-> node_types,
         raised |-> "none"]

\* gnn_model.py prepare_cloud_graph_data (lines 63-107): node_id_to_idx is
\* indexed with every edge's endpoints, a missing id raises KeyError
prepare_cloud_graph_data(ns, es, feature_mapping) ==
    LET node_id_to_idx == NodeIdToIdx(ns)
        x == [k \in 1..Len(ns) |->
                IF HasKey(ns[k].group)
                THEN OneHot(feature_mapping, ns[k].group)
                ELSE [c \in 1..Cardinality(DOMAIN feature_mapping) |-> 0]]
    IN  IF \E j \in 1..Len(es) :
            es[j].from \notin DOMAIN node_id_to_idx
            \/ es[j].to \notin DOMAIN node_id_to_idx
        THEN [raised |-> "KeyError"]
        ELSE [x |-> Tensor(<<Len(ns), Cardinality(DOMAIN feature_mapping)>>,
                           x),
              edge_index |->
                Tensor(<<2, Len(es)>>,
                       <<[j \in 1..Len(es) |-> node_id_to_idx[es[j].from]],
                         [j \in 1..Len(es) |-> node_id_to_idx[es[j].to]]>>),
              node_ids |-> [k \in 1..Len(ns) |-> ns[k].id],
              raised |-> "none"]

----------------------------------------------------------------------------
\* generate_dataset and the labels CloudSecurityDataset.process derives

\* graph['label'] = 1 if graph['anomalies'] else 0
GraphLabel(anoms) == IF anoms # <<>> THEN 1 ELSE 0

\* process, lines 203-211: one label per node id, 0 for an id without entry
NodeY(ns, labels) ==
    [k \in 1..Len(ns) |->
        IF ns[k].id \in DOMAIN labels THEN labels[ns[k].id] ELSE 0]

GenIdle ==
    /\ nodes = <<>> /\ edges = <<>> /\ anomalies = <<>>
    /\ node_labels = <<>> /\ label = -1 /\ pattern = "none"
    /\ pre_nodes = <<>> /\ pre_edges = <<>> /\ result = None
    /\ node_y = <<>>

\* a graph without nodes and edges
EmptyGraph == [nodes |-> <<>>, edges |-> <<>>]

\* no Data object
NoData == [raised |-> "none"]

\* a dataset variable not assigned yet
NoDataset == [built |-> FALSE]

\* the parts of the program a specification does not run
GenOff == gen_pc = "off" /\ graphs_len = 0 /\ GenIdle

FeatOff ==
    /\ feat_pc = "off" /\ processor = NewCloudResourceGraph
    /\ corpus = <<>> /\ fit_history = <<>> /\ raised = "none"
    /\ transform = "none" /\ graph_arg = EmptyGraph /\ data = NoData

TrainOff ==
    /\ train_pc = "off" /\ graphs = <<>> /\ train_dataset = NoDataset
    /\ val_dataset = NoDataset /\ test_dataset = NoDataset

InfOff ==
    /\ inf_pc = "off" /\ threshold = 0
    /\ graph_processor = NewCloudResourceGraph /\ inf_graph = EmptyGraph
    /\ predictions = <<>> /\ findings = <<>>

SevOff == sev_pc = "off" /\ sev_confidence = 0 /\ severity = "none"

\* api/main.py lines 92-100, before any request
InitialMetrics ==
    [total_resources |-> 0, risk_score |-> 0, anomalies_detected |-> 0,
     critical_alerts |-> 0]

ApiOff ==
    /\ api_pc = "off" /\ api_engine = "None" /\ api_anomalies = <<>>
    /\ metrics = InitialMetrics /\ analysis_in_progress = FALSE
    /\ api_raised = "none"

\* no file at the checkpoint path
NoFile == [kind |-> "absent"]

\* no metrics dict yet
NoMetrics == [keys |-> {}]

TrainerOff ==
    /\ tr_pc = "off" /\ num_epochs = 0 /\ patience = 0 /\ val_aucs = <<>>
    /\ val_has_positive = FALSE /\ test_has_positive = FALSE /\ val_aps = <<>>
    /\ best_val_auc = 0 /\ best_epoch = 0 /\ patience_counter = 0
    /\ weights = 0 /\ checkpoint = NoFile /\ eval_metrics = NoMetrics
    /\ tr_raised = "none"

EngOff ==
    /\ eng_app = "off" /\ model_file = "missing" /\ inference_engine = "None"
    /\ config_file = "missing"
    /\ loads = <<>> /\ eng_status = "none"

\* an analyze argument without any key
NoGraphData == [keys |-> {}]

NetOff ==
    /\ net_pc = "off" /\ graph_data = NoGraphData /\ net_findings = <<>>
    /\ net_result = <<>>

\* the parts of the model that do not take part in the first specifications
\* api/main.py line 93: cloud_graph = None
NoCloudGraph == [kind |-> "None"]

\* no handler has answered yet
NoResponse == [handler |-> "none"]

SrvOff ==
    /\ cloud_graph = NoCloudGraph /\ pending = <<>> /\ posts = 0
    /\ response = NoResponse

\* previous_state: Optional[...] = None
NoState == [given |-> FALSE, items |-> <<>>]

CtOff ==
    /\ ct_pc = "off" /\ current_state = <<>> /\ previous_state = NoState
    /\ changes = <<>> /\ storage = <<>> /\ new_changes = <<>>

LateOff == SrvOff /\ CtOff

OthersOff == EngOff /\ NetOff /\ LateOff

RestOff == SevOff /\ ApiOff /\ TrainerOff /\ OthersOff

BaseOff == GenOff /\ FeatOff /\ TrainOff /\ InfOff

InitGen ==
    /\ gen_pc = "generate" /\ graphs_len = 0 /\ GenIdle
    /\ FeatOff /\ TrainOff /\ InfOff /\ RestOff

\* one iteration of generate_dataset's loop (lines 345-357)
GenerateDatasetGraph ==
    /\ gen_pc = "generate"
    /\ \E num_nodes \in 0..MaxNodes :
       \E es \in RandomEdges(num_nodes) :
       \E ns \in RandomNodes(num_nodes) :
       \E g \in generate_graph(ns, es) :
        /\ nodes' = g.nodes
        /\ edges' = g.edges
        /\ anomalies' = g.anomalies
        /\ node_labels' = g.node_labels
        /\ pattern' = g.pattern
        /\ pre_nodes' = g.pre_nodes
        /\ pre_edges' = g.pre_edges
        /\ result' = g.result
        /\ label' = GraphLabel(g.anomalies)
    /\ graphs_len' = 1
    /\ gen_pc' = "appended"
    /\ UNCHANGED <<node_y, featVars, trainVars, infVars, restVars>>

\* CloudSecurityDataset.process on the graph just appended (lines 199-211)
ProcessGraph ==
    /\ gen_pc = "appended"
    /\ node_y' = NodeY(nodes, node_labels)
    /\ gen_pc' = "processed"
    /\ UNCHANGED <<nodes, edges, anomalies, node_labels, label, pattern,
                   pre_nodes, pre_edges, result, graphs_len>>
    /\ UNCHANGED <<featVars, trainVars, infVars, restVars>>

NextGen == GenerateDatasetGraph \/ ProcessGraph

Init == InitGen

Next == NextGen

Spec == Init /\ [][Next]_vars

----------------------------------------------------------------------------
\* The patterns called directly on a graph (SpecPattern).  The graphs are
\* those generate_graph's two loops build, optionally followed by
\* MaxExtraNodes further storage nodes and by the two singleton nodes an
\* earlier pattern call leaves behind.  The patterns read of the edge list
\* its length only, so its edges all carry the first relationship type.

ExtraNodes(first, count) ==
    [k \in 1..count |->
        [id |-> NodeId(first + k - 1), label |-> <<"storage", first + k - 1>>,
         group |-> "storage"]]

PatternEdges(num_nodes) ==
    { EdgeLoop(num_nodes, 0, hit, [q \in 0..(MaxTrials - 1) |-> 1], <<>>)
      : hit \in [0..(MaxTrials - 1) -> BOOLEAN] }

InitPattern ==
    /\ gen_pc = "pattern"
    /\ graphs_len = 0
    /\ \E num_nodes \in 0..MaxNodes :
       \E extra \in {0, MaxExtraNodes} :
       \E singletons \in BOOLEAN :
         /\ nodes \in { ns \o ExtraNodes(num_nodes, extra) \o
                        (IF singletons THEN <<public_node, external_node>>
                                       ELSE <<>>)
                        : ns \in RandomNodes(num_nodes) }
         /\ edges \in PatternEdges(num_nodes)
    /\ anomalies = <<>> /\ node_labels = <<>> /\ label = -1
    /\ pattern = "none" /\ pre_nodes = <<>> /\ pre_edges = <<>>
    /\ result = None /\ node_y = <<>>
    /\ FeatOff /\ TrainOff /\ InfOff /\ RestOff

CallPattern(name) ==
    /\ gen_pc = "pattern"
    /\ \E o \in ApplyPattern(name, nodes, edges) :
        /\ nodes' = o.nodes
        /\ edges' = o.edges
        /\ result' = o.result
    /\ pattern' = name
    /\ pre_nodes' = nodes
    /\ pre_edges' = edges
    /\ gen_pc' = "pattern_done"
    /\ UNCHANGED <<anomalies, node_labels, label, graphs_len, node_y>>
    /\ UNCHANGED <<featVars, trainVars, infVars, restVars>>

CallExcessivePermissions == CallPattern("excessive_permissions")

CallUnusualAccess == CallPattern("unusual_access")

CallInsecureConfiguration == CallPattern("insecure_configuration")

CallPrivilegeEscalation == CallPattern("privilege_escalation")

CallDataExfiltration == CallPattern("data_exfiltration")

NextPattern ==
    \/ CallExcessivePermissions
    \/ CallUnusualAccess
    \/ CallInsecureConfiguration
    \/ CallPrivilegeEscalation
    \/ CallDataExfiltration

SpecPattern == InitPattern /\ [][NextPattern]_vars

----------------------------------------------------------------------------
\* The featurizer on its own.  SpecFit fits one corpus repeatedly, iterating
\* it in different orders; SpecFeat fits a featurizer and transforms a graph.

FeatMaxNodes == 2

FeatMaxEdges == 2

MaxFits == 2

\* groups and labels of the graphs given to the featurizer
FeatGroups == {"compute", "storage"}

FeatLabels == {"reads", "writes"}

\* a node as generate_graph writes it, 'group' possibly missing
FeatNode(i, group) ==
    [id |-> NodeId(i), label |-> <<"Node", i>>, group |-> group]

\* an edge as generate_graph writes it
FeatEdge(k, from, to, lab) ==
    [id |-> <<"edge", k, 0>>, from |-> from, to |-> to, label |-> lab]

FeatNodes(n) ==
    { [k \in 1..n |-> FeatNode(k - 1, f[k])]
      : f \in [1..n -> FeatGroups \cup {NoKey}] }

\* endpoints of an edge of a graph of n nodes; NodeId(n) is not one of them
EndpointPairs(n) ==
    IF n = 0 THEN {<<NodeId(n), NodeId(n)>>}
    ELSE {<<NodeId(0), NodeId(n - 1)>>, <<NodeId(n), NodeId(0)>>,
          <<NodeId(n - 1), NodeId(n)>>}

FeatEdges(n, e) ==
    { [k \in 1..e |-> FeatEdge(k - 1, f[k][1][1], f[k][1][2], f[k][2])]
      : f \in [1..e -> EndpointPairs(n) \X FeatLabels] }

FeatGraphs ==
    UNION { { [nodes |-> ns, edges |-> es]
              : ns \in FeatNodes(n), es \in FeatEdges(n, e) }
            : n \in 0..FeatMaxNodes, e \in 0..FeatMaxEdges }

\* graphs node-0 -> node-1 -> ... without a dangling edge, the edges of a
\* graph all of one label
PathGraphs ==
    UNION { { [nodes |-> ns,
               edges |-> [k \in 1..(IF n = 0 THEN 0 ELSE n - 1) |->
                            FeatEdge(k - 1, NodeId(k - 1), NodeId(k), lab)]]
              : ns \in FeatNodes(n),
                lab \in (IF n < 2 THEN {NoKey} ELSE FeatLabels) }
            : n \in 0..FeatMaxNodes }

FitCorpora ==
    { <<g>> : g \in PathGraphs } \cup { <<g, h>> : g, h \in PathGraphs }

Reverse(s) == [k \in 1..Len(s) |-> s[Len(s) + 1 - k]]

\* the corpus with its graphs, and the nodes and edges of each graph, in
\* the opposite order
Reversed(gs) ==
    [k \in 1..Len(gs) |->
        [nodes |-> Reverse(gs[Len(gs) + 1 - k].nodes),
         edges |-> Reverse(gs[Len(gs) + 1 - k].edges)]]

FeatStart ==
    /\ feat_pc = "new" /\ processor = NewCloudResourceGraph
    /\ fit_history = <<>> /\ raised = "none"
    /\ transform = "none" /\ graph_arg = EmptyGraph /\ data = NoData
    /\ GenOff /\ TrainOff /\ InfOff /\ RestOff

InitFit == FeatStart /\ corpus \in FitCorpora

\* CloudSecurityDataset.process lines 191-192 on the corpus, iterated in the
\* order given or in the opposite one
FitCorpus ==
    /\ feat_pc \in {"new", "fitted"}
    /\ Len(fit_history) < MaxFits
    /\ \E reversed \in BOOLEAN :
        LET r == fit_encoders(NewCloudResourceGraph,
                              IF reversed THEN Reversed(corpus) ELSE corpus)
        IN  /\ processor' = r.self
            /\ raised' = r.raised
            /\ fit_history' =
                 Append(fit_history,
                        [vocabulary |-> Vocabulary(r.self),
                         raised |-> r.raised, reversed |-> reversed])
    /\ feat_pc' = "fitted"
    /\ UNCHANGED <<corpus, transform, graph_arg, data>>
    /\ UNCHANGED <<genVars, trainVars, infVars, restVars>>

NextFit == FitCorpus

SpecFit == InitFit /\ [][NextFit]_vars

InitFeat == FeatStart /\ corpus = <<>>

\* fit_encoders([graph]) on the featurizer, fitted before or not
FitEncoders ==
    /\ feat_pc \in {"new", "fitted"}
    /\ \E g \in FeatGraphs :
        LET r == fit_encoders(processor, <<g>>)
        IN  processor' = r.self /\ raised' = r.raised
    /\ feat_pc' = "fitted"
    /\ UNCHANGED <<corpus, fit_history, transform, graph_arg, data>>
    /\ UNCHANGED <<genVars, trainVars, infVars, restVars>>

\* process_graph(graph) on the featurizer
CallProcessGraph ==
    /\ feat_pc \in {"new", "fitted"}
    /\ \E g \in FeatGraphs :
        LET d == process_graph(processor, g)
        IN  data' = d /\ raised' = d.raised /\ graph_arg' = g
    /\ transform' = "process_graph"
    /\ feat_pc' = "transformed"
    /\ UNCHANGED <<processor, corpus, fit_history>>
    /\ UNCHANGED <<genVars, trainVars, infVars, restVars>>

\* prepare_cloud_graph_data(nodes, edges, feature_mapping) with the
\* featurizer's node type mapping
CallPrepareCloudGraphData ==
    /\ feat_pc \in {"new", "fitted"}
    /\ \E g \in FeatGraphs :
        LET d == prepare_cloud_graph_data(g.nodes, g.edges,
                                          processor.node_type_mapping)
        IN  data' = d /\ raised' = d.raised /\ graph_arg' = g
    /\ transform' = "prepare_cloud_graph_data"
    /\ feat_pc' = "transformed"
    /\ UNCHANGED <<processor, corpus, fit_history>>
    /\ UNCHANGED <<genVars, trainVars, infVars, restVars>>

NextFeat == FitEncoders \/ CallProcessGraph \/ CallPrepareCloudGraphData

SpecFeat == InitFeat /\ [][NextFeat]_vars

----------------------------------------------------------------------------
\* run_training.py main: the generated graphs are split and one
\* CloudSecurityDataset is built per split (SpecTrain); the inference engine
\* then featurizes a graph.

NumGraphs == 7

\* graphs as generate_graph returns them
TrainGraphFamily ==
    { [nodes |-> <<FeatNode(0, "compute"), FeatNode(1, "storage")>>,
       edges |-> <<FeatEdge(0, NodeId(0), NodeId(1), "contains")>>],
      [nodes |-> <<FeatNode(0, "storage"), FeatNode(1, "identity")>>,
       edges |-> <<FeatEdge(0, NodeId(1), NodeId(0), "accesses")>>],
      [nodes |-> <<FeatNode(0, "storage")>>, edges |-> <<>>] }

\* int(args.num_graphs * 0.7)
num_train == (NumGraphs * 70) \div 100

\* int(args.num_graphs * 0.15)
num_val == (NumGraphs * 15) \div 100

train_graphs == SubSeq(graphs, 1, num_train)

val_graphs == SubSeq(graphs, num_train + 1, num_train + num_val)

test_graphs == SubSeq(graphs, num_train + num_val + 1, Len(graphs))

\* CloudSecurityDataset(root, graphs): process builds a new
\* CloudResourceGraph, fits it on the dataset's own graphs and transforms
\* each of them with it
CloudSecurityDataset(gs) ==
    LET r == fit_encoders(NewCloudResourceGraph, gs)
    IN  [built |-> TRUE,
         processor |-> r.self,
         raised |-> r.raised,
         data_list |->
            IF r.raised = "none"
            THEN [k \in 1..Len(gs) |-> process_graph(r.self, gs[k])]
            ELSE <<>>]

\* the position after a dataset was built, or after its construction raised
AfterDataset(ds, pc) == IF ds.raised = "none" THEN pc ELSE "raised"

InitTrain ==
    /\ train_pc = "split"
    /\ graphs \in [1..NumGraphs -> TrainGraphFamily]
    /\ train_dataset = NoDataset /\ val_dataset = NoDataset
    /\ test_dataset = NoDataset
    /\ GenOff /\ FeatOff /\ RestOff
    /\ inf_pc = "off" /\ threshold = 0
    /\ graph_processor = NewCloudResourceGraph /\ inf_graph = EmptyGraph
    /\ predictions = <<>> /\ findings = <<>>

\* run_training.py lines 55-58
CreateTrainDataset ==
    /\ train_pc = "split"
    /\ train_dataset' = CloudSecurityDataset(train_graphs)
    /\ train_pc' = AfterDataset(train_dataset', "train")
    /\ UNCHANGED <<graphs, val_dataset, test_dataset>>
    /\ UNCHANGED <<genVars, featVars, infVars, restVars>>

\* run_training.py lines 60-63
CreateValDataset ==
    /\ train_pc = "train"
    /\ val_dataset' = CloudSecurityDataset(val_graphs)
    /\ train_pc' = AfterDataset(val_dataset', "val")
    /\ UNCHANGED <<graphs, train_dataset, test_dataset>>
    /\ UNCHANGED <<genVars, featVars, infVars, restVars>>

\* run_training.py lines 65-68
CreateTestDataset ==
    /\ train_pc = "val"
    /\ test_dataset' = CloudSecurityDataset(test_graphs)
    /\ train_pc' = AfterDataset(test_dataset', "test")
    /\ UNCHANGED <<graphs, train_dataset, val_dataset>>
    /\ UNCHANGED <<genVars, featVars, infVars, restVars>>

\* mutant of EngineProcessGraph: the featurizer is fitted on every call
EngineProcessGraphRefits(self, graph) ==
    LET r == fit_encoders(self, <<graph>>)
    IN  [graph_processor |-> r.self,
         raised |-> r.raised,
         data |-> IF r.raised = "none"
                  THEN process_graph(r.self, graph) ELSE NoData]

\* inference.py process_graph (lines 126-141): a featurizer that was never
\* fitted is fitted on the graph submitted, then the graph is transformed
EngineProcessGraph(self, graph) ==
    LET r == IF self.node_type_encoder = "None"
             THEN fit_encoders(self, <<graph>>)
             ELSE [self |-> self, raised |-> "none"]
    IN  [graph_processor |-> r.self,
         raised |-> r.raised,
         data |-> IF r.raised = "none"
                  THEN process_graph(r.self, graph) ELSE NoData]

\* the engine, built after training, featurizes a submitted graph
InferenceProcessGraph ==
    /\ train_pc = "test"
    /\ \E g \in TrainGraphFamily :
        /\ graph_processor' =
             EngineProcessGraph(graph_processor, g).graph_processor
        /\ inf_graph' = g
    /\ train_pc' = "served"
    /\ UNCHANGED <<inf_pc, threshold, predictions, findings>>
    /\ UNCHANGED <<genVars, featVars, restVars>>
    /\ UNCHANGED <<graphs, train_dataset, val_dataset, test_dataset>>

NextTrain ==
    \/ CreateTrainDataset \/ CreateValDataset \/ CreateTestDataset
    \/ InferenceProcessGraph

SpecTrain == InitTrain /\ [][NextTrain]_vars

----------------------------------------------------------------------------
\* CloudSecurityInference.detect_anomalies (SpecInf).  The model is the
\* object torch.load returned: calling it either raises or yields one score
\* per node, here in hundredths.

InfMaxNodes == 3

InfMaxEdges == 2

\* threshold: float = 0.7 of __init__
default_threshold == 70

Thresholds == {50, default_threshold}

Scores == {50, 70, 71, 95}

InfGroups == {"s3", "ec2"}

\* a node of a submitted graph; an ec2 node carries no 'InstanceType', so
\* that properties.get yields 't2.micro'
InfNode(i, group) ==
    [id |-> NodeId(i), label |-> <<"Node", i>>, group |-> group]

InfEdge(from, to) == [from_id |-> from, to_id |-> to]

InfNodes(n) ==
    { [k \in 1..n |-> InfNode(k - 1, f[k])] : f \in [1..n -> InfGroups] }

\* edges between neighbours of the node list, and self loops
InfPairs(n) ==
    { <<NodeId(i), NodeId(i)>> : i \in 0..(n - 1) }
    \cup { <<NodeId(i), NodeId(i + 1)>> : i \in 0..(n - 2) }
    \cup { <<NodeId(i + 1), NodeId(i)>> : i \in 0..(n - 2) }

InfEdges(n, e) ==
    { [k \in 1..e |-> InfEdge(f[k][1], f[k][2])]
      : f \in [1..e -> InfPairs(n)] }

\* _extract_node_features: for an ec2 node float('micro') raises ValueError
extract_node_features_raises(node) == node.group = "ec2"

\* _prepare_graph_data re-raises what its body raised
prepare_graph_data_raises(graph) ==
    \E k \in 1..Len(graph.nodes) :
        extract_node_features_raises(graph.nodes[k])

\* _determine_severity
determine_severity(confidence) ==
    IF confidence > 90 THEN "critical"
    ELSE IF confidence > 80 THEN "high"
    ELSE IF confidence > 70 THEN "medium"
    ELSE "low"

RECURSIVE get_connected_nodes_outgoing(_, _)
\* mutant of get_connected_nodes: only the edges leaving the node count
get_connected_nodes_outgoing(node_id, es) ==
    IF es = <<>> THEN <<>>
    ELSE LET rest == get_connected_nodes_outgoing(node_id,
                                                  SubSeq(es, 1, Len(es) - 1))
             edge == es[Len(es)]
         IN  IF edge.from_id = node_id THEN Append(rest, edge.to_id)
             ELSE rest

RECURSIVE get_connected_nodes(_, _)
\* _get_connected_nodes: an edge adds its far end, once
get_connected_nodes(node_id, es) ==
    IF es = <<>> THEN <<>>
    ELSE LET rest == get_connected_nodes(node_id, SubSeq(es, 1, Len(es) - 1))
             edge == es[Len(es)]
         IN  IF edge.from_id = node_id THEN Append(rest, edge.to_id)
             ELSE IF edge.to_id = node_id THEN Append(rest, edge.from_id)
             ELSE rest

\* mutant of Exceeds: a score equal to the threshold is reported too
ExceedsOrEquals(pred, thr) == pred >= thr

\* `if pred > self.threshold`
Exceeds(pred, thr) == pred > thr

RECURSIVE Findings(_, _, _, _)
\* the loop of detect_anomalies over zip(graph['nodes'], predictions), its
\* first m pairs; the j-th uuid4() drawn is <<"uuid4", j>>
Findings(graph, preds, thr, m) ==
    IF m = 0 THEN <<>>
    ELSE LET before == Findings(graph, preds, thr, m - 1)
             node == graph.nodes[m]
         IN  IF Exceeds(preds[m], thr)
             THEN Append(before,
                    [id |-> <<"uuid4", Len(before) + 1>>,
                     node_id |-> node.id,
                     node_type |-> node.group,
                     node_label |-> node.label,
                     severity |-> determine_severity(preds[m]),
                     confidence_score |-> preds[m],
                     connected_nodes |->
                        get_connected_nodes(node.id, graph.edges)])
             ELSE before

\* detect_anomalies(graph) when the model returns preds
detect_anomalies(graph, preds, thr) ==
    Findings(graph, preds, thr, Min(Len(graph.nodes), Len(preds)))

InitInf ==
    /\ inf_pc = "ready"
    /\ threshold \in Thresholds
    /\ graph_processor = NewCloudResourceGraph
    /\ inf_graph = EmptyGraph /\ predictions = <<>> /\ findings = <<>>
    /\ GenOff /\ FeatOff /\ TrainOff /\ RestOff

\* detect_anomalies returns the findings
DetectAnomalies ==
    /\ inf_pc = "ready"
    /\ \E n \in 0..InfMaxNodes : \E e \in 0..InfMaxEdges :
       \E ns \in InfNodes(n) : \E es \in InfEdges(n, e) :
       \E preds \in [1..n -> Scores] :
        LET graph == [nodes |-> ns, edges |-> es]
        IN  /\ ~prepare_graph_data_raises(graph)
            /\ inf_graph' = graph
            /\ predictions' = preds
            /\ findings' = detect_anomalies(graph, preds, threshold)
    /\ inf_pc' = "returned"
    /\ UNCHANGED <<threshold, graph_processor>>
    /\ UNCHANGED <<genVars, featVars, trainVars, restVars>>

\* detect_anomalies logs and re-raises: _prepare_graph_data raised, or the
\* call of the model did
DetectAnomaliesRaises ==
    /\ inf_pc = "ready"
    /\ \E n \in 0..InfMaxNodes : \E e \in 0..InfMaxEdges :
       \E ns \in InfNodes(n) : \E es \in InfEdges(n, e) :
        inf_graph' = [nodes |-> ns, edges |-> es]
    /\ inf_pc' = "raised"
    /\ UNCHANGED <<threshold, graph_processor, predictions, findings>>
    /\ UNCHANGED <<genVars, featVars, trainVars, restVars>>

NextInf == DetectAnomalies \/ DetectAnomaliesRaises

SpecInf == InitInf /\ [][NextInf]_vars

\* ---------------------------------------------------------------------
\* Repeated calls of CloudSecurityInference.process_graph on one engine.
\* corpus lists the graphs submitted so far; data and raised are the result
\* of the last call.

MaxCalls == 3

\* graphs submitted to the engine: those of the training family, one whose
\* only node has no group, and one with other types
SubmittedGraphs ==
    TrainGraphFamily
    \cup { [nodes |-> <<FeatNode(0, NoKey)>>, edges |-> <<>>],
           [nodes |-> <<FeatNode(0, "network"), FeatNode(1, "compute")>>,
            edges |-> <<FeatEdge(0, NodeId(0), NodeId(1), "connects")>>] }

InitAutoFit ==
    /\ inf_pc = "serve" /\ threshold = default_threshold
    /\ graph_processor = NewCloudResourceGraph /\ inf_graph = EmptyGraph
    /\ predictions = <<>> /\ findings = <<>>
    /\ feat_pc = "off" /\ processor = NewCloudResourceGraph
    /\ corpus = <<>> /\ fit_history = <<>> /\ raised = "none"
    /\ transform = "none" /\ graph_arg = EmptyGraph /\ data = NoData
    /\ GenOff /\ TrainOff /\ RestOff

\* engine.process_graph(graph)
SubmitGraph ==
    /\ inf_pc = "serve"
    /\ Len(corpus) < MaxCalls
    /\ \E g \in SubmittedGraphs :
        LET r == EngineProcessGraph(graph_processor, g)
        IN  /\ graph_processor' = r.graph_processor
            /\ data' = r.data
            /\ raised' = r.raised
            /\ inf_graph' = g
            /\ corpus' = Append(corpus, g)
    /\ UNCHANGED <<inf_pc, threshold, predictions, findings>>
    /\ UNCHANGED <<feat_pc, processor, fit_history, transform, graph_arg>>
    /\ UNCHANGED <<genVars, trainVars, restVars>>

NextAutoFit == SubmitGraph

SpecAutoFit == InitAutoFit /\ [][NextAutoFit]_vars

----------------------------------------------------------------------------
\* _determine_severity as a function of its argument (SpecSeverity).  The
\* argument is a probability, taken on the grid of hundredths.

ScoreGrid == 0..100

InitSeverity ==
    /\ sev_pc = "call" /\ sev_confidence \in ScoreGrid /\ severity = "none"
    /\ BaseOff /\ ApiOff /\ TrainerOff /\ OthersOff

\* self._determine_severity(confidence)
CallDetermineSeverity ==
    /\ sev_pc = "call"
    /\ severity' = determine_severity(sev_confidence)
    /\ sev_pc' = "returned"
    /\ UNCHANGED sev_confidence
    /\ UNCHANGED notSevVars

NextSeverity == CallDetermineSeverity

SpecSeverity == InitSeverity /\ [][NextSeverity]_vars

----------------------------------------------------------------------------
\* api/main.py: the background task analyze_cloud_graph (SpecApi).  The
\* engine handed to the task is None (get_inference_engine loads nothing
\* while model_required is False), a CloudSecurityInference, or an object
\* whose detect_anomalies takes the keyword `threshold`.

MaxFindings == 4

Severities == {"critical", "high", "medium", "low"}

EngineKinds == {"None", "CloudSecurityInference", "accepts threshold"}

\* severity_weights[severity]
severity_weights(sev) ==
    CASE sev = "critical" -> 100
      [] sev = "high" -> 70
      [] sev = "medium" -> 40
      [] sev = "low" -> 10

RECURSIVE WeightedSum(_)
\* sum(severity_weights[a['severity']] for a in anomalies)
WeightedSum(anoms) ==
    IF anoms = <<>> THEN 0
    ELSE severity_weights(Head(anoms).severity) + WeightedSum(Tail(anoms))

\* mutant of RiskScore: the weights are summed and neither averaged nor capped
RiskScoreSum(anoms) == WeightedSum(anoms)

\* lines 167-172; int() of a quotient that is not negative drops its fraction
RiskScore(anoms) ==
    IF anoms # <<>>
    THEN Min(100, WeightedSum(anoms) \div Len(anoms))
    ELSE 0

\* the findings an engine returns for a graph of one s3 node per finding
ApiFinding(k, sev) ==
    [id |-> <<"uuid4", k>>, node_id |-> NodeId(k - 1), node_type |-> "s3",
     node_label |-> <<"Node", k - 1>>, severity |-> sev,
     connected_nodes |-> <<>>]

\* lines 129-155: the processed anomaly of a finding
ProcessedAnomaly(graph, finding) ==
    LET ids == <<finding.node_id>> \o finding.connected_nodes
        Found(id) == id \in NodeIds(graph.nodes)
        known == SelectSeq(ids, Found)
    IN  [id |-> finding.id,
         severity |-> finding.severity,
         resource_ids |-> <<finding.node_id>>,
         resource_type |-> finding.node_type,
         affected_resources |->
            [j \in 1..Len(known) |->
                LET node == graph.nodes[
                        CHOOSE k \in 1..Len(graph.nodes) :
                            graph.nodes[k].id = known[j]
                            /\ \A i \in 1..(k - 1) :
                                graph.nodes[i].id # known[j]]
                IN  [id |-> node.id, name |-> node.label,
                     type |-> node.group]],
         is_new |-> TRUE]

\* lines 160-164 and 167-172
ComputeMetrics(graph, anoms) ==
    [total_resources |-> Len(graph.nodes),
     anomalies_detected |-> Len(anoms),
     critical_alerts |->
        Cardinality({j \in 1..Len(anoms) : anoms[j].severity = "critical"}),
     risk_score |-> RiskScore(anoms)]

InitApi ==
    /\ api_pc = "idle" /\ api_engine = "None" /\ api_anomalies = <<>>
    /\ metrics = InitialMetrics /\ analysis_in_progress = FALSE
    /\ api_raised = "none"
    /\ BaseOff /\ SevOff /\ TrainerOff /\ OthersOff

\* analyze_cloud_graph runs to its end: detect_anomalies(graph,
\* threshold=0.7) returned a list
AnalyzeCloudGraph ==
    /\ api_pc = "idle"
    /\ api_engine' = "accepts threshold"
    /\ \E n \in 0..MaxFindings : \E sev \in [1..n -> Severities] :
        LET graph == [nodes |-> [k \in 1..n |-> InfNode(k - 1, "s3")],
                      edges |-> <<>>]
            processed ==
                [k \in 1..n |->
                    ProcessedAnomaly(graph, ApiFinding(k, sev[k]))]
        IN  /\ api_anomalies' = processed
            /\ metrics' = ComputeMetrics(graph, processed)
    /\ analysis_in_progress' = FALSE
    /\ api_raised' = "none"
    /\ api_pc' = "done"
    /\ UNCHANGED notApiVars

\* the call of detect_anomalies raises: None has no such attribute, and
\* CloudSecurityInference.detect_anomalies(self, graph) takes no keyword
\* `threshold`; the except clause logs, the finally clause clears the flag
AnalyzeCloudGraphFails ==
    /\ api_pc = "idle"
    /\ \E engine \in EngineKinds \ {"accepts threshold"} :
        /\ api_engine' = engine
        /\ api_raised' = IF engine = "None" THEN "AttributeError"
                         ELSE "TypeError"
    /\ analysis_in_progress' = FALSE
    /\ api_pc' = "done"
    /\ UNCHANGED <<api_anomalies, metrics>>
    /\ UNCHANGED notApiVars

NextApi == AnalyzeCloudGraph \/ AnalyzeCloudGraphFails

SpecApi == InitApi /\ [][NextApi]_vars

----------------------------------------------------------------------------
\* api/main.py: the handlers of the running application around the task
\* (SpecServer).  Every handler and the task are coroutines of one event
\* loop: a handler runs from its first line to its return with nothing in
\* between, and so does analyze_cloud_graph, whose body holds no await.  The
\* task added by a POST is started by the response object after the response
\* was sent, so other requests can be handled between the POST and its task.

\* POST /api/analyze requests handled in one behaviour
MaxRequests == 3

\* request.graph.dict(): the empty graph and a graph of two s3 nodes
RequestGraph(n) ==
    [nodes |-> [k \in 1..n |-> InfNode(k - 1, "s3")], edges |-> <<>>]

RequestGraphs == {RequestGraph(0), RequestGraph(2)}

\* a list without its i-th element
RemoveAt(s, i) == SubSeq(s, 1, i - 1) \o SubSeq(s, i + 1, Len(s))

\* lines 90-102; the global inference_engine is what an earlier
\* get_inference_engine call or the embedding program left there
InitServer ==
    /\ api_pc = "serving" /\ api_engine \in EngineKinds
    /\ api_anomalies = <<>> /\ metrics = InitialMetrics
    /\ analysis_in_progress = FALSE /\ api_raised = "none"
    /\ SrvOff
    /\ BaseOff /\ SevOff /\ TrainerOff /\ EngOff /\ NetOff /\ CtOff

\* lines 215-232: POST /api/analyze
PostAnalyze ==
    /\ api_pc = "serving" /\ posts < MaxRequests
    /\ posts' = posts + 1
    /\ \E graph \in RequestGraphs :
        IF analysis_in_progress
        THEN /\ response' = [handler |-> "analyze",
                             message |-> "Analysis already in progress"]
             /\ UNCHANGED <<cloud_graph, pending>>
        ELSE /\ cloud_graph' = graph
             /\ pending' = Append(pending, graph)
             /\ response' = [handler |-> "analyze",
                             message |-> "Analysis started"]
    /\ UNCHANGED apiVars
    /\ UNCHANGED notSrvVars

\* lines 117-178: one added task runs to its end, detect_anomalies having
\* returned a list; the flag set at line 121 is cleared at line 178
RunAnalysis ==
    /\ api_pc = "serving" /\ api_engine = "accepts threshold"
    /\ \E i \in 1..Len(pending) :
        LET graph == pending[i]
        IN  /\ pending' = RemoveAt(pending, i)
            /\ \E sev \in [1..Len(graph.nodes) -> Severities] :
                LET processed ==
                        [k \in 1..Len(graph.nodes) |->
                            ProcessedAnomaly(graph, ApiFinding(k, sev[k]))]
                IN  /\ api_anomalies' = processed
                    /\ metrics' = ComputeMetrics(graph, processed)
    /\ analysis_in_progress' = FALSE
    /\ api_raised' = "none"
    /\ UNCHANGED <<api_pc, api_engine, cloud_graph, posts, response>>
    /\ UNCHANGED notSrvVars

\* lines 117-178: one added task whose detect_anomalies call raises (None
\* has no such attribute, CloudSecurityInference.detect_anomalies takes no
\* keyword `threshold`, any engine can raise from its model); lines 175-178
\* log and clear the flag
RunAnalysisFails ==
    /\ api_pc = "serving"
    /\ \E i \in 1..Len(pending) : pending' = RemoveAt(pending, i)
    /\ api_raised' = CASE api_engine = "None" -> "AttributeError"
                        [] api_engine = "CloudSecurityInference" -> "TypeError"
                        [] OTHER -> "Exception"
    /\ analysis_in_progress' = FALSE
    /\ UNCHANGED <<api_pc, api_engine, api_anomalies, metrics, cloud_graph,
                   posts, response>>
    /\ UNCHANGED notSrvVars

\* lines 234-237: GET /api/status
GetStatus ==
    /\ api_pc = "serving"
    /\ response' = [handler |-> "get_status",
                    analysis_in_progress |-> analysis_in_progress]
    /\ UNCHANGED <<cloud_graph, pending, posts>>
    /\ UNCHANGED apiVars
    /\ UNCHANGED notSrvVars

\* lines 205-208: GET /api/anomalies
GetAnomalies ==
    /\ api_pc = "serving"
    /\ response' = [handler |-> "get_anomalies", anomalies |-> api_anomalies]
    /\ UNCHANGED <<cloud_graph, pending, posts>>
    /\ UNCHANGED apiVars
    /\ UNCHANGED notSrvVars

\* lines 210-213: GET /api/metrics
GetMetrics ==
    /\ api_pc = "serving"
    /\ response' = [handler |-> "get_metrics", metrics |-> metrics]
    /\ UNCHANGED <<cloud_graph, pending, posts>>
    /\ UNCHANGED apiVars
    /\ UNCHANGED notSrvVars

NextServer ==
    \/ PostAnalyze
    \/ RunAnalysis
    \/ RunAnalysisFails
    \/ GetStatus
    \/ GetAnomalies
    \/ GetMetrics

SpecServer == InitServer /\ [][NextServer]_vars

\* ---------------------------------------------------------------------
\* CloudSecurityTrainer.train for the anomaly_detection task, followed by
\* the end of run_training.py's main (load the best model, evaluate, print).
\* The weights of the model are identified by the number of training epochs
\* that produced them.  torch.save writes straight to the path it is given:
\* opening the file truncates it, the serialised bytes follow; the two
\* moments are separate steps so that an interruption can fall between them.

MaxEpochs == 4

MaxPatience == 2

\* (auc, ap) pairs that roc_auc_score / average_precision_score return on
\* labels holding a positive label, in hundredths
ValScores == {[auc |-> 30, ap |-> 20], [auc |-> 50, ap |-> 40],
              [auc |-> 80, ap |-> 70]}

\* the sentinel both metrics take without a positive label
Sentinel == [auc |-> 0, ap |-> 0]

\* _validate's (auc, ap) in the binary branch
ValidateScores(has_positive, score) ==
    IF has_positive THEN score ELSE Sentinel

ImprovesOrEquals(val_auc, best) == val_auc >= best

\* the test `val_auc > best_val_auc`
Improves(val_auc, best) == val_auc > best

\* the file torch.save(self.model.state_dict(), path) leaves when it completes
\* (holds: what the file contains, the tensors of state_dict() and no more)
StateDict(w) == [kind |-> "state_dict", weights |-> w, holds |-> {"weights"}]

\* the file while torch.save is writing it
PartialFile == [kind |-> "partial"]

\* where the loop goes after the body of epoch number n (1-based) completed
\* without break
LoopNext(n) == IF n = num_epochs THEN "trained" ELSE "epoch"

\* the keys evaluate sets in the binary branch
BinaryMetricKeys(has_positive) ==
    IF has_positive
    THEN {"auc", "ap", "precision", "recall", "thresholds", "best_threshold",
          "best_f1", "best_precision", "best_recall"}
    ELSE {"auc", "ap"}

\* evaluate's return value in the binary branch
EvaluateMetrics(has_positive, score) ==
    LET m == ValidateScores(has_positive, score)
    IN  [keys |-> BinaryMetricKeys(has_positive), auc |-> m.auc, ap |-> m.ap]

\* the keys main's prints read for a task other than the classifications
PrintedKeys == {"auc", "ap", "best_f1", "best_threshold"}

InitTrainer ==
    /\ tr_pc = "epoch"
    /\ num_epochs \in 1..MaxEpochs
    /\ patience \in 0..MaxPatience
    /\ val_has_positive \in BOOLEAN
    /\ test_has_positive \in BOOLEAN
    /\ val_aucs = <<>> /\ val_aps = <<>>
    /\ best_val_auc = 0 /\ best_epoch = 0 /\ patience_counter = 0
    /\ weights = 0
    /\ checkpoint = NoFile
    /\ eval_metrics = NoMetrics
    /\ tr_raised = "none"
    /\ BaseOff /\ SevOff /\ ApiOff /\ OthersOff

\* one pass of the loop body up to the call of save_model or the break
TrainEpoch ==
    /\ tr_pc = "epoch"
    /\ \E score \in ValScores :
        LET epoch == Len(val_aucs)
            v == ValidateScores(val_has_positive, score)
        IN  /\ weights' = weights + 1
            /\ val_aucs' = Append(val_aucs, v.auc)
            /\ val_aps' = Append(val_aps, v.ap)
            /\ IF Improves(v.auc, best_val_auc)
               THEN /\ best_val_auc' = v.auc
                    /\ best_epoch' = epoch
                    /\ patience_counter' = 0
                    /\ tr_pc' = "save_model"
               ELSE /\ patience_counter' = patience_counter + 1
                    /\ tr_pc' = IF patience_counter + 1 >= patience
                                THEN "trained"
                                ELSE LoopNext(epoch + 1)
                    /\ UNCHANGED <<best_val_auc, best_epoch>>
    /\ UNCHANGED <<num_epochs, patience, val_has_positive, test_has_positive,
                   checkpoint, eval_metrics, tr_raised, notTrainerVars>>

\* save_model: torch.save opens the path for writing
SaveModelOpen ==
    /\ tr_pc = "save_model"
    /\ checkpoint' = PartialFile
    /\ tr_pc' = "writing"
    /\ UNCHANGED <<num_epochs, patience, val_has_positive, test_has_positive,
                   val_aucs, val_aps, best_val_auc, best_epoch,
                   patience_counter, weights, eval_metrics, tr_raised,
                   notTrainerVars>>

\* save_model: torch.save has written the state dict and closed the file
SaveModelWrite ==
    /\ tr_pc = "writing"
    /\ checkpoint' = StateDict(weights)
    /\ tr_pc' = LoopNext(Len(val_aucs))
    /\ UNCHANGED <<num_epochs, patience, val_has_positive, test_has_positive,
                   val_aucs, val_aps, best_val_auc, best_epoch,
                   patience_counter, weights, eval_metrics, tr_raised,
                   notTrainerVars>>

\* the process is interrupted (signal, power loss) during train
Interrupt ==
    /\ tr_pc \in {"epoch", "save_model", "writing"}
    /\ tr_pc' = "interrupted"
    /\ UNCHANGED <<num_epochs, patience, val_has_positive, test_has_positive,
                   val_aucs, val_aps, best_val_auc, best_epoch,
                   patience_counter, weights, checkpoint, eval_metrics,
                   tr_raised, notTrainerVars>>

\* main: load_model(best_model_path) if the file exists
MainLoadBest ==
    /\ tr_pc = "trained"
    /\ weights' = IF checkpoint.kind = "state_dict" THEN checkpoint.weights
                  ELSE weights
    /\ tr_pc' = "evaluate"
    /\ UNCHANGED <<num_epochs, patience, val_has_positive, test_has_positive,
                   val_aucs, val_aps, best_val_auc, best_epoch,
                   patience_counter, checkpoint, eval_metrics, tr_raised,
                   notTrainerVars>>

\* main: metrics = trainer.evaluate(test_loader, task)
Evaluate ==
    /\ tr_pc = "evaluate"
    /\ \E score \in ValScores :
        eval_metrics' = EvaluateMetrics(test_has_positive, score)
    /\ tr_pc' = "evaluated"
    /\ UNCHANGED <<num_epochs, patience, val_has_positive, test_has_positive,
                   val_aucs, val_aps, best_val_auc, best_epoch,
                   patience_counter, weights, checkpoint, tr_raised,
                   notTrainerVars>>

\* main: the prints of the else branch read metrics[...] for PrintedKeys
MainPrint ==
    /\ tr_pc = "evaluated"
    /\ IF PrintedKeys \subseteq eval_metrics.keys
       THEN tr_pc' = "done" /\ tr_raised' = tr_raised
       ELSE tr_pc' = "raised" /\ tr_raised' = "KeyError"
    /\ UNCHANGED <<num_epochs, patience, val_has_positive, test_has_positive,
                   val_aucs, val_aps, best_val_auc, best_epoch,
                   patience_counter, weights, checkpoint, eval_metrics,
                   notTrainerVars>>

NextTrainer ==
    \/ TrainEpoch
    \/ SaveModelOpen
    \/ SaveModelWrite
    \/ Interrupt
    \/ MainLoadBest
    \/ Evaluate
    \/ MainPrint

SpecTrainer == InitTrainer /\ [][NextTrainer]_vars

\* ---------------------------------------------------------------------
\* CloudSecurityInference.__init__ and the two get_inference_engine
\* dependencies.  The file at MODEL_PATH is missing, a state dict (what
\* save_model writes), a pickled module whose input width is the one the
\* engine's features have, or a pickled module of another input width.

MaxLoads == 3

ModelFiles == {"missing", "state_dict", "module", "module of other shape"}

Apps == {"backend.main", "backend.api.main"}

\* the global model_required of backend/api/main.py; nothing assigns it
model_required == FALSE

\* _load_model: torch.load raises for a missing file; .eval() raises on the
\* OrderedDict a state-dict file unpickles to; a pickled module is returned
\* whatever its shapes are
load_model_raises(file) ==
    CASE file = "missing" -> "FileNotFoundError"
      [] file = "state_dict" -> "AttributeError"
      [] OTHER -> "none"

\* the file accesses of __init__, in order: torch.load of the checkpoint
\* (line 31, through _load_model), then, if the constructor got that far and
\* the file exists, json.load of model_config.json (lines 38-40)
InitSteps(file, config) ==
    <<"torch.load">>
    \o (IF load_model_raises(file) = "none" /\ config = "present"
        THEN <<"json.load">> ELSE <<>>)

\* CloudSecurityInference(model_path): the exception raised, the object made,
\* the file accesses made and where self.config comes from
NewCloudSecurityInference(file, config) ==
    LET e == load_model_raises(file)
    IN  [raised |-> e,
         engine |-> IF e = "none" THEN "CloudSecurityInference" ELSE "None",
         steps |-> InitSteps(file, config),
         config |-> IF e # "none" THEN "none"
                    ELSE IF config = "present" THEN "model_config.json"
                    ELSE "default"]

\* the condition under which get_inference_engine constructs the engine
AttemptsLoad(app, engine) ==
    /\ engine = "None"
    /\ app = "backend.api.main" => model_required

InitEngine ==
    /\ eng_app \in Apps
    /\ model_file \in ModelFiles
    /\ config_file \in {"present", "missing"}
    /\ inference_engine = "None"
    /\ loads = <<>>
    /\ eng_status = "none"
    /\ BaseOff /\ SevOff /\ ApiOff /\ TrainerOff /\ NetOff /\ LateOff

\* a request (or the startup event) resolves the dependency and the engine is
\* constructed
GetInferenceEngineLoads ==
    /\ Len(loads) < MaxLoads
    /\ AttemptsLoad(eng_app, inference_engine)
    /\ LET r == NewCloudSecurityInference(model_file, config_file)
       IN  /\ loads' = Append(loads, [file |-> model_file, raised |-> r.raised,
                                      engine |-> r.engine, steps |-> r.steps,
                                      config |-> r.config])
           /\ inference_engine' = r.engine
           /\ eng_status' = IF r.raised = "none" THEN "returned"
                            ELSE "HTTPException(500)"
    /\ UNCHANGED <<eng_app, model_file, config_file, notEngVars>>

\* a request resolves the dependency and the global is returned as it is
GetInferenceEngineReturns ==
    /\ ~AttemptsLoad(eng_app, inference_engine)
    /\ eng_status' = "returned"
    /\ UNCHANGED <<eng_app, model_file, config_file, inference_engine, loads,
                   notEngVars>>

\* the operator puts another file at MODEL_PATH
ReplaceModelFile ==
    /\ \E file \in ModelFiles \ {model_file} : model_file' = file
    /\ UNCHANGED <<eng_app, config_file, inference_engine, loads, eng_status,
                   notEngVars>>

NextEngine ==
    \/ GetInferenceEngineLoads
    \/ GetInferenceEngineReturns
    \/ ReplaceModelFile

SpecEngine == InitEngine /\ [][NextEngine]_vars

\* ---------------------------------------------------------------------
\* NetworkAnalyzer (backend/security/network_analyzer.py) on top of
\* SecurityAnalyzer (base_analyzer.py).  A Python dict is a record with the
\* field keys holding the keys present; a field whose key is absent holds a
\* filler that no operator reads.  A finding keeps resource_id, severity,
\* title and evidence; description and recommendation are texts formatted
\* from the same fields and are left out.  A title is the tuple of its words.

MaxRules == 2

SENSITIVE_PORTS ==
    (22 :> "SSH") @@ (23 :> "Telnet") @@ (3389 :> "RDP") @@ (1433 :> "MSSQL")
    @@ (3306 :> "MySQL") @@ (5432 :> "PostgreSQL") @@ (27017 :> "MongoDB")
    @@ (6379 :> "Redis") @@ (9200 :> "Elasticsearch") @@ (5601 :> "Kibana")

\* add_finding's dict
Finding(resource_id, sev, title, evidence) ==
    [resource_id |-> resource_id, severity |-> sev, title |-> title,
     evidence |-> evidence]

\* mutant of is_sensitive_port: a sensitive port counts only on a public rule
is_sensitive_port_public(rule) ==
    /\ "port" \in rule.keys /\ rule.port \in DOMAIN SENSITIVE_PORTS
    /\ "cidr" \in rule.keys /\ rule.cidr \in {"0.0.0.0/0", "::/0"}

\* _is_public_access: rule.get('cidr', '') is one of the two open ranges
is_public_access(rule) ==
    LET cidr == IF "cidr" \in rule.keys THEN rule.cidr ELSE ""
    IN  cidr = "0.0.0.0/0" \/ cidr = "::/0"

\* _is_sensitive_port: rule.get('port') in SENSITIVE_PORTS (None is not)
is_sensitive_port(rule) ==
    "port" \in rule.keys /\ rule.port \in DOMAIN SENSITIVE_PORTS

\* the findings one pass of the loop body of _analyze_security_group adds
RuleFindings(sg, rule) ==
    (IF is_public_access(rule)
     THEN <<Finding(sg.id, "high",
                    <<"Public Access in Security Group">>, rule)>>
     ELSE <<>>)
    \o
    (IF is_sensitive_port(rule)
     THEN <<Finding(sg.id, "critical",
                    <<"Exposed", SENSITIVE_PORTS[rule.port], "Port">>, rule)>>
     ELSE <<>>)

RECURSIVE RulesFindings(_, _)
\* the loop over sg['rules']
RulesFindings(sg, rules) ==
    IF rules = <<>> THEN <<>>
    ELSE RuleFindings(sg, Head(rules)) \o RulesFindings(sg, Tail(rules))

analyze_security_group(sg) ==
    IF "rules" \notin sg.keys THEN <<>> ELSE RulesFindings(sg, sg.rules)

analyze_ec2_instance(instance) ==
    IF instance.subnet_is_public
    THEN <<Finding(instance.id, "medium",
                   <<"EC2 Instance in Public Subnet">>, instance)>>
    ELSE <<>>

analyze_ecs_service(service) ==
    IF service.privileged
    THEN <<Finding(service.id, "high", <<"Privileged ECS Container">>,
                   service)>>
    ELSE <<>>

analyze_eks_cluster(cluster) ==
    IF ~cluster.pod_security_policies
    THEN <<Finding(cluster.id, "high", <<"Missing Pod Security Policies">>,
                   cluster)>>
    ELSE <<>>

\* what the analysis of one resource of a kind adds
ResourceFindings(kind, r) ==
    CASE kind = "security_groups" -> analyze_security_group(r)
      [] kind = "ec2_instances" -> analyze_ec2_instance(r)
      [] kind = "ecs_services" -> analyze_ecs_service(r)
      [] kind = "eks_clusters" -> analyze_eks_cluster(r)

RECURSIVE ForEach(_, _)
\* `for r in graph_data[kind]: self._analyze_...(r)`
ForEach(kind, rs) ==
    IF rs = <<>> THEN <<>>
    ELSE ResourceFindings(kind, Head(rs)) \o ForEach(kind, Tail(rs))

\* `if kind in graph_data: for ...`
KindFindings(gd, kind) ==
    IF kind \in gd.keys THEN ForEach(kind, gd[kind]) ELSE <<>>

\* analyze: self.findings after clear_findings and the four loops
analyze(gd) ==
    KindFindings(gd, "security_groups") \o KindFindings(gd, "ec2_instances")
    \o KindFindings(gd, "ecs_services") \o KindFindings(gd, "eks_clusters")

\* ---- the inputs ----
RulePorts == {22, 5432, 80}

RuleCidrs == {"0.0.0.0/0", "::/0", "10.0.0.0/16"}

\* a rule dict; 0 and "" fill the fields of absent keys
Rules ==
    {[keys |-> {"port", "cidr"}, port |-> p, cidr |-> c] :
        p \in RulePorts, c \in RuleCidrs}
    \cup {[keys |-> {"port"}, port |-> p, cidr |-> ""] : p \in RulePorts}
    \cup {[keys |-> {"cidr"}, port |-> 0, cidr |-> c] : c \in RuleCidrs}
    \cup {[keys |-> {}, port |-> 0, cidr |-> ""]}

RuleLists == UNION {[1..n -> Rules] : n \in 0..MaxRules}

SecurityGroup(id, rules) ==
    [keys |-> {"id", "name", "rules"}, id |-> id, rules |-> rules]

\* a security group without the key 'rules'
BareSecurityGroup(id) == [keys |-> {"id", "name"}, id |-> id, rules |-> <<>>]

\* the groups listed after the first one
MoreGroups ==
    {<<>>,
     <<BareSecurityGroup("sg-2")>>,
     <<SecurityGroup("sg-2", <<[keys |-> {"port", "cidr"}, port |-> 22,
                                cidr |-> "::/0"]>>)>>}

\* the other three resource lists: flagged or not flagged
OtherResources(flagged) ==
    [ec2_instances |-> <<[id |-> "i-1", subnet_is_public |-> flagged]>>,
     ecs_services |-> <<[id |-> "ecs-1", privileged |-> flagged]>>,
     eks_clusters |-> <<[id |-> "eks-1", pod_security_policies |-> ~flagged]>>]

OtherKeys == {"ec2_instances", "ecs_services", "eks_clusters"}

GraphData(keys, sgs, flagged) ==
    LET o == OtherResources(flagged)
    IN  [keys |-> keys, security_groups |-> sgs,
         ec2_instances |-> o.ec2_instances, ecs_services |-> o.ecs_services,
         eks_clusters |-> o.eks_clusters]

\* a finding left in self.findings by an earlier call
StaleFinding == Finding("sg-0", "high", <<"Public Access in Security Group">>,
                        [keys |-> {}, port |-> 0, cidr |-> ""])

InitNet ==
    /\ net_pc = "call"
    /\ \E flagged \in BOOLEAN, others \in {{}, OtherKeys} :
        \/ graph_data = GraphData(others, <<>>, flagged)
        \/ \E more \in MoreGroups :
            \/ graph_data = GraphData(others \cup {"security_groups"},
                                      <<BareSecurityGroup("sg-1")>> \o more,
                                      flagged)
            \/ \E rules \in RuleLists :
                graph_data = GraphData(others \cup {"security_groups"},
                                       <<SecurityGroup("sg-1", rules)>>
                                           \o more,
                                       flagged)
    /\ net_findings \in {<<>>, <<StaleFinding>>}
    /\ net_result = <<>>
    /\ BaseOff /\ SevOff /\ ApiOff /\ TrainerOff /\ EngOff /\ LateOff

\* findings = analyzer.analyze(graph_data)
Analyze ==
    /\ net_pc \in {"call", "returned"}
    /\ net_findings' = analyze(graph_data)
    /\ net_result' = net_findings'
    /\ net_pc' = "returned"
    /\ UNCHANGED <<graph_data, notNetVars>>

NextNet == Analyze

SpecNet == InitNet /\ [][NextNet]_vars

\* ---------------------------------------------------------------------
\* IAMAnalyzer (backend/security/iam_analyzer.py), a second SecurityAnalyzer:
\* the analyzer's state is the one NetworkAnalyzer has.  An action or
\* resource string is the tuple of its pieces, the text being their
\* concatenation; '*' and ':' occur only as pieces of their own, so that
\* str.endswith is a test on the last pieces.  A value that Python allows to
\* be a str or a list carries its type.  Times are counted in half days.

MaxPolicies == 1

MAX_KEY_AGE_DAYS == 90

HalfDaysPerDay == 2

\* s.endswith(suffix) on piece tuples
EndsWith(s, suffix) ==
    /\ Len(s) >= Len(suffix)
    /\ SubSeq(s, Len(s) - Len(suffix) + 1, Len(s)) = suffix

\* `if isinstance(v, str): v = [v]`
AsList(v) == v.items

\* `'*' in resources or any(resource.endswith('*') for resource in resources)`
ResourceIsWild(resource) == resource = <<"*">> \/ EndsWith(resource, <<"*">>)

\* the two tests of one statement of _has_overly_permissive_policy; a
\* missing 'Action' or 'Resource' is the empty list
StatementIsPermissive(statement) ==
    LET actions == IF "Action" \in statement.keys
                   THEN AsList(statement.Action) ELSE <<>>
        resources == IF "Resource" \in statement.keys
                     THEN AsList(statement.Resource) ELSE <<>>
    IN  \/ \E k \in 1..Len(actions) :
               actions[k] = <<"*">> \/ EndsWith(actions[k], <<":", "*">>)
        \/ \E k \in 1..Len(resources) : ResourceIsWild(resources[k])

\* _has_overly_permissive_policy
has_overly_permissive_policy(policy) ==
    /\ "Statement" \in policy.keys
    /\ \E k \in 1..Len(policy.Statement) :
           StatementIsPermissive(policy.Statement[k])

\* the tests of one statement of _has_overly_permissive_trust, for a
\* principal that is '*' or a dict
TrustStatementIsPermissive(statement) ==
    LET principal == IF "Principal" \in statement.keys
                     THEN statement.Principal
                     ELSE [type |-> "dict", keys |-> {}, AWS |-> "",
                           Service |-> [type |-> "str", items |-> <<>>]]
    IN  \/ principal.type = "str"
        \/ ("AWS" \in principal.keys /\ principal.AWS = "*")
        \/ /\ "Service" \in principal.keys
           /\ \E k \in 1..Len(principal.Service.items) :
                  principal.Service.items[k] = "*"

\* _has_overly_permissive_trust
has_overly_permissive_trust(trust_policy) ==
    /\ "Statement" \in trust_policy.keys
    /\ \E k \in 1..Len(trust_policy.Statement) :
           TrustStatementIsPermissive(trust_policy.Statement[k])

\* _has_missing_source_arn: an sts:AssumeRole statement without
\* Condition.StringEquals['aws:SourceArn']
has_missing_source_arn(trust_policy) ==
    /\ "Statement" \in trust_policy.keys
    /\ \E k \in 1..Len(trust_policy.Statement) :
        LET st == trust_policy.Statement[k]
        IN  /\ "Action" \in st.keys /\ st.Action = "sts:AssumeRole"
            /\ \/ "Condition" \notin st.keys
               \/ "StringEquals" \notin st.Condition.keys
               \/ "aws:SourceArn" \notin st.Condition.StringEquals

\* age.days of `datetime.now(timezone.utc) - create_date`
AgeDays(now, create_date) == (now - create_date) \div HalfDaysPerDay

\* _is_old_access_key
is_old_access_key(key, now) ==
    /\ "create_date" \in key.keys
    /\ AgeDays(now, key.create_date) > MAX_KEY_AGE_DAYS

RECURSIVE PolicyFindings(_, _)
\* the loop over attached_policies of a role or a user
PolicyFindings(id, policies) ==
    IF policies = <<>> THEN <<>>
    ELSE (IF has_overly_permissive_policy(Head(policies))
          THEN <<Finding(id, "high", <<"Overly Permissive Attached Policy">>,
                         Head(policies))>>
          ELSE <<>>)
         \o PolicyFindings(id, Tail(policies))

analyze_iam_role(role) ==
    (IF "trust_policy" \in role.keys
     THEN (IF has_overly_permissive_trust(role.trust_policy)
           THEN <<Finding(role.id, "critical",
                          <<"Overly Permissive Role Trust Policy">>,
                          role.trust_policy)>>
           ELSE <<>>)
          \o
          (IF has_missing_source_arn(role.trust_policy)
           THEN <<Finding(role.id, "high", <<"Missing Source ARN Condition">>,
                          role.trust_policy)>>
           ELSE <<>>)
     ELSE <<>>)
    \o
    (IF "attached_policies" \in role.keys
     THEN PolicyFindings(role.id, role.attached_policies) ELSE <<>>)

RECURSIVE KeyFindings(_, _, _)
\* the loop over access_keys
KeyFindings(id, access_keys, now) ==
    IF access_keys = <<>> THEN <<>>
    ELSE (IF is_old_access_key(Head(access_keys), now)
          THEN <<Finding(id, "medium", <<"Old Access Key">>,
                         Head(access_keys))>>
          ELSE <<>>)
         \o KeyFindings(id, Tail(access_keys), now)

analyze_iam_user(user, now) ==
    (IF "access_keys" \in user.keys
     THEN KeyFindings(user.id, user.access_keys, now) ELSE <<>>)
    \o
    (IF "attached_policies" \in user.keys
     THEN PolicyFindings(user.id, user.attached_policies) ELSE <<>>)

RECURSIVE RolesFindings(_)
RolesFindings(roles) ==
    IF roles = <<>> THEN <<>>
    ELSE analyze_iam_role(Head(roles)) \o RolesFindings(Tail(roles))

RECURSIVE UsersFindings(_, _)
UsersFindings(users, now) ==
    IF users = <<>> THEN <<>>
    ELSE analyze_iam_user(Head(users), now) \o UsersFindings(Tail(users), now)

\* IAMAnalyzer.analyze: self.findings after clear_findings and the two loops
iam_analyze(gd) ==
    (IF "iam_roles" \in gd.keys THEN RolesFindings(gd.iam_roles) ELSE <<>>)
    \o
    (IF "iam_users" \in gd.keys THEN UsersFindings(gd.iam_users, gd.now)
     ELSE <<>>)

\* ---- the inputs ----
PyStr(v) == [type |-> "str", items |-> <<v>>]

PyList(vs) == [type |-> "list", items |-> vs]

NamedAction == <<"logs", ":", "CreateLogGroup">>

ActionTexts == {<<"*">>, <<"logs", ":", "*">>, NamedAction}

\* an ARN, an ARN scoped to a log group that ends in ':*', a prefix with a
\* wildcard, and the wildcard
LogGroupArn ==
    <<"arn:aws:logs:us-east-1:123456789012:log-group:/aws/lambda/test-function",
      ":", "*">>

PlainArn == <<"arn:aws:s3:::bucket/key">>

ResourceTexts == {<<"*">>, LogGroupArn, PlainArn, <<"arn:aws:s3:::bucket/", "*">>}

PolicyStatements ==
    {[keys |-> {"Effect", "Action", "Resource"}, Action |-> PyStr(a),
      Resource |-> PyStr(r)] : a \in ActionTexts, r \in ResourceTexts}
    \cup {[keys |-> {"Effect", "Action", "Resource"},
           Action |-> PyList(<<NamedAction, NamedAction>>),
           Resource |-> PyList(<<PlainArn, LogGroupArn>>)],
          [keys |-> {"Effect"}, Action |-> PyList(<<>>),
           Resource |-> PyList(<<>>)]}

Policies ==
    {[keys |-> {"name", "Statement"}, Statement |-> <<st>>] :
        st \in PolicyStatements}
    \cup {[keys |-> {"name"}, Statement |-> <<>>]}

PolicyLists == UNION {[1..n -> Policies] : n \in 0..MaxPolicies}

DictPrincipal(keys, aws, service) ==
    [type |-> "dict", keys |-> keys, AWS |-> aws, Service |-> service]

NoService == PyList(<<>>)

Principals ==
    {[type |-> "str", keys |-> {}, AWS |-> "", Service |-> NoService],
     DictPrincipal({"AWS"}, "*", NoService),
     DictPrincipal({"AWS"}, "arn:aws:iam::123456789012:root", NoService),
     DictPrincipal({"Service"}, "", PyStr("lambda.amazonaws.com")),
     DictPrincipal({"Service"}, "", PyStr("*")),
     DictPrincipal({"Service"}, "",
                   PyList(<<"lambda.amazonaws.com", "*">>))}

\* a Condition dict: its operators, and the keys under StringEquals
Conditions ==
    {[keys |-> {"StringEquals"}, StringEquals |-> {"aws:SourceArn"}],
     [keys |-> {"StringEquals"}, StringEquals |-> {"aws:SourceAccount"}],
     [keys |-> {"StringLike"}, StringEquals |-> {}]}

TrustStatements ==
    {[keys |-> {"Effect", "Principal", "Action", "Condition"},
      Principal |-> pr, Action |-> a, Condition |-> c] :
        pr \in Principals, a \in {"sts:AssumeRole", "sts:TagSession"},
        c \in Conditions}
    \cup {[keys |-> {"Effect", "Principal", "Action"},
           Principal |-> pr, Action |-> "sts:AssumeRole",
           Condition |-> [keys |-> {}, StringEquals |-> {}]] :
            pr \in Principals}

TrustPolicies ==
    {[keys |-> {"Statement"}, Statement |-> <<st>>] : st \in TrustStatements}
    \cup {[keys |-> {}, Statement |-> <<>>]}

\* the moment of the call, in half days
Now == 400

\* create_date values: now, 90 days, 90.5 days and 91 days before now
CreateDates == {Now, Now - 180, Now - 181, Now - 182}

AccessKeys ==
    {[keys |-> {"id", "create_date"}, create_date |-> d] : d \in CreateDates}
    \cup {[keys |-> {"id"}, create_date |-> 0]}

IamRole(trust_policy, policies) ==
    [keys |-> {"id", "name", "trust_policy", "attached_policies"},
     id |-> "role-123", trust_policy |-> trust_policy,
     attached_policies |-> policies]

IamUser(key) ==
    [keys |-> {"id", "name", "access_keys"}, id |-> "user-123",
     access_keys |-> <<key>>, attached_policies |-> <<>>]

IamGraphData(roles, users) ==
    [keys |-> {"iam_roles", "iam_users"}, iam_roles |-> roles,
     iam_users |-> users, now |-> Now]

InitIam ==
    /\ net_pc = "call"
    /\ \E tp \in TrustPolicies, ps \in PolicyLists, key \in AccessKeys :
        graph_data = IamGraphData(<<IamRole(tp, ps)>>, <<IamUser(key)>>)
    /\ net_findings \in {<<>>, <<StaleFinding>>}
    /\ net_result = <<>>
    /\ BaseOff /\ SevOff /\ ApiOff /\ TrainerOff /\ EngOff /\ LateOff

\* findings = analyzer.analyze(graph_data) on an IAMAnalyzer
IamAnalyze ==
    /\ net_pc \in {"call", "returned"}
    /\ net_findings' = iam_analyze(graph_data)
    /\ net_result' = net_findings'
    /\ net_pc' = "returned"
    /\ UNCHANGED <<graph_data, notNetVars>>

NextIam == IamAnalyze

SpecIam == InitIam /\ [][NextIam]_vars

----------------------------------------------------------------------------
\* security/change_tracker.py: ChangeTracker.track_changes (SpecTracker).
\* A resource dict is the list of its (key, value) items in insertion order;
\* a state dict is the list of its (resource type, resource list) items in
\* insertion order.  An Optional value is a record that tells whether it is
\* None.

NoValue == [none |-> TRUE, value |-> <<>>]

Some(d) == [none |-> FALSE, value |-> d]

\* d[key] of a resource dict
ItemOf(d, key) == d[CHOOSE k \in 1..Len(d) : d[k][1] = key][2]

\* the keys of the resource dicts in str order, which sort_keys uses
KeyOrder == <<"id", "name", "policy">>

\* json.dumps(config, sort_keys=True): the items by ascending key
json_dumps_sorted(config) ==
    LET Present(key) == \E k \in 1..Len(config) : config[k][1] = key
        keys == SelectSeq(KeyOrder, Present)
    IN  [k \in 1..Len(keys) |-> <<keys[k], ItemOf(config, keys[k])>>]

\* lines 38-41; sha256 is taken to give different texts different digests
compute_hash(config) == <<"sha256", json_dumps_sorted(config)>>

\* ConfigurationChange(...), lines 51-61, 74-84, 89-99 and 105-115
ConfigurationChange(resource_id, resource_type, change_type, old, new,
                    hashed) ==
    [resource_id |-> resource_id, resource_type |-> resource_type,
     change_type |-> change_type, old_value |-> old, new_value |-> new,
     timestamp |-> "utcnow", change_hash |-> compute_hash(hashed),
     user |-> "None", source_ip |-> "None"]

\* lines 49-62: the first run marks every resource as added
AddedChanges(resource_type, resources) ==
    [k \in 1..Len(resources) |->
        ConfigurationChange(ItemOf(resources[k], "id"), resource_type,
                            "added", NoValue, Some(resources[k]),
                            resources[k])]

\* line 66: {r['id']: r for r in ...}, as the list of its values in
\* insertion order; a later resource of an id replaces the earlier value
PrevResources(resources) ==
    LET id(k) == ItemOf(resources[k], "id")
        First(k) == \A j \in 1..(k - 1) : id(j) # id(k)
        Last(k) == \A j \in (k + 1)..Len(resources) : id(j) # id(k)
        firsts == SelectSeq([k \in 1..Len(resources) |-> k], First)
    IN  [n \in 1..Len(firsts) |->
            resources[CHOOSE k \in 1..Len(resources) :
                          id(k) = id(firsts[n]) /\ Last(k)]]

RECURSIVE CompareResources(_, _, _, _)
\* lines 68-100 (the loop over resources, which deletes what it met from
\* prev_resources) and lines 102-116 (what is left is deleted)
CompareResources(resource_type, resources, prev_resources, out) ==
    IF resources = <<>>
    THEN out \o
         [k \in 1..Len(prev_resources) |->
            ConfigurationChange(ItemOf(prev_resources[k], "id"),
                                resource_type, "deleted",
                                Some(prev_resources[k]), NoValue,
                                prev_resources[k])]
    ELSE LET resource == Head(resources)
             resource_id == ItemOf(resource, "id")
             hits == {k \in 1..Len(prev_resources) :
                        ItemOf(prev_resources[k], "id") = resource_id}
         IN  IF hits = {}
             THEN CompareResources(resource_type, Tail(resources),
                     prev_resources,
                     Append(out,
                        ConfigurationChange(resource_id, resource_type,
                            "added", NoValue, Some(resource), resource)))
             ELSE LET at == CHOOSE k \in hits : TRUE
                      old_resource == prev_resources[at]
                  IN  CompareResources(resource_type, Tail(resources),
                         RemoveAt(prev_resources, at),
                         IF compute_hash(old_resource)
                                # compute_hash(resource)
                         THEN Append(out,
                                ConfigurationChange(resource_id,
                                    resource_type, "modified",
                                    Some(old_resource), Some(resource),
                                    resource))
                         ELSE out)

\* previous_state.get(resource_type, [])
StateGet(items, resource_type) ==
    IF \E k \in 1..Len(items) : items[k].type = resource_type
    THEN items[CHOOSE k \in 1..Len(items) :
                   items[k].type = resource_type].resources
    ELSE <<>>

RECURSIVE TrackItems(_, _)
\* lines 49 and 65: for resource_type, resources in current_state.items()
TrackItems(items, previous) ==
    IF items = <<>> THEN <<>>
    ELSE (IF previous.given
          THEN CompareResources(Head(items).type, Head(items).resources,
                   PrevResources(StateGet(previous.items, Head(items).type)),
                   <<>>)
          ELSE AddedChanges(Head(items).type, Head(items).resources))
         \o TrackItems(Tail(items), previous)

\* lines 43-116: new_changes of track_changes(current_state, previous_state)
track_changes(current, previous) == TrackItems(current, previous)

\* a bucket dict as get_s3_buckets builds it, and the same dict built with
\* its keys in another order
Bucket(name, policy, order) ==
    IF order = "id first"
    THEN <<<<"id", name>>, <<"name", name>>, <<"policy", policy>>>>
    ELSE <<<<"policy", policy>>, <<"name", name>>, <<"id", name>>>>

BucketsA ==
    {Bucket("bucket-a", "{}", "id first"), Bucket("bucket-a", "{}", "id last"),
     Bucket("bucket-a", "policy-1", "id first")}

BucketB == Bucket("bucket-b", "{}", "id first")

BucketLists ==
    {<<>>, <<BucketB>>} \cup {<<a>> : a \in BucketsA}
        \cup {<<a, BucketB>> : a \in BucketsA}

SecurityGroupA == <<<<"id", "sg-a">>, <<"name", "sg-a">>>>

\* state dicts: 's3_buckets' and 'security_groups', each present or not
StateDicts ==
    {<<>>, <<[type |-> "security_groups", resources |-> <<SecurityGroupA>>]>>}
    \cup {<<[type |-> "s3_buckets", resources |-> b]>> : b \in BucketLists}
    \cup {<<[type |-> "s3_buckets", resources |-> b],
            [type |-> "security_groups", resources |-> <<SecurityGroupA>>]>>
           : b \in BucketLists}

\* the history an earlier run saved
SavedHistory ==
    <<ConfigurationChange("bucket-b", "s3_buckets", "added", NoValue,
                          Some(BucketB), BucketB)>>

\* lines 19-22: _load_history reads the file at storage_path (lines 26-29),
\* or finds none and starts from the empty list (lines 30-31)
InitTracker ==
    /\ ct_pc = "call" /\ current_state = <<>> /\ previous_state = NoState
    /\ storage \in {<<>>, SavedHistory} /\ changes = storage
    /\ new_changes = <<>>
    /\ BaseOff /\ SevOff /\ ApiOff /\ TrainerOff /\ EngOff /\ NetOff
    /\ SrvOff

\* lines 43-120: track_changes, with its extend and _save_history
TrackChanges ==
    /\ ct_pc = "call"
    /\ \E current \in StateDicts :
       \E previous \in {NoState}
                        \cup {[given |-> TRUE, items |-> p] : p \in StateDicts} :
        /\ current_state' = current
        /\ previous_state' = previous
        /\ new_changes' = track_changes(current, previous)
        /\ changes' = changes \o track_changes(current, previous)
        /\ storage' = changes \o track_changes(current, previous)
    /\ ct_pc' = "returned"
    /\ UNCHANGED notCtVars

NextTracker == TrackChanges

SpecTracker == InitTracker /\ [][NextTracker]_vars

----------------------------------------------------------------------------
\* Claims about the generator

CountOfGroups(ns, groups) == Len(NodesOfGroups(ns, groups))

Affected(anoms) ==
    UNION {Range(anoms[a].affected_nodes) : a \in 1..Len(anoms)}

\* C1: in every graph generate_graph returns, whichever pattern was
\* injected, each edge's 'from' and 'to' are ids of nodes of that graph.
C1_EdgeEndpointsExist ==
    gen_pc # "generate" =>
        \A k \in 1..Len(edges) :
            /\ edges[k].from \in NodeIds(nodes)
            /\ edges[k].to \in NodeIds(nodes)

\* a graph into which data_exfiltration was injected: its last edge ends at
\* the external-endpoint node the pattern created
C1_Witness ==
    /\ gen_pc = "appended"
    /\ pattern = "data_exfiltration"
    /\ result # None
    /\ external_node_id \notin NodeIds(pre_nodes)
    /\ edges[Len(edges)].to = external_node_id

\* C2: excessive_permissions on a graph with at least one identity node and
\* at least one sensitive (storage/database) node appends exactly
\* min(5, #sensitive) edges and returns a descriptor; on a graph without
\* identity node it returns None and leaves nodes and edges as they were.
C2_ExcessivePermissions ==
    (gen_pc = "pattern_done" /\ pattern = "excessive_permissions") =>
        LET identities == CountOfGroups(pre_nodes, {"identity"})
            sensitive == CountOfGroups(pre_nodes, {"storage", "database"})
        IN  /\ (identities >= 1 /\ sensitive >= 1) =>
                /\ Len(edges) = Len(pre_edges) + Min(5, sensitive)
                /\ SubSeq(edges, 1, Len(pre_edges)) = pre_edges
                /\ \A k \in (Len(pre_edges) + 1)..Len(edges) :
                       \A j \in 1..Len(edges) :
                           edges[j].id = edges[k].id => j = k
                /\ result # None
                /\ result.affected_nodes # <<>>
            /\ identities = 0 =>
                /\ result = None
                /\ nodes = pre_nodes
                /\ edges = pre_edges

\* more than five sensitive nodes: five edges were added
C2_Witness ==
    /\ gen_pc = "pattern_done"
    /\ pattern = "excessive_permissions"
    /\ CountOfGroups(pre_nodes, {"storage", "database"}) > 5
    /\ result # None
    /\ Len(edges) = Len(pre_edges) + 5

\* the resource-type precondition of each pattern
Precondition(name, ns) ==
    CASE name = "excessive_permissions" ->
            /\ CountOfGroups(ns, {"identity"}) >= 1
            /\ CountOfGroups(ns, {"storage", "database"}) >= 1
      [] name = "unusual_access" -> CountOfGroups(ns, {"compute"}) >= 2
      [] name = "insecure_configuration" ->
            CountOfGroups(ns, {"storage"}) >= 1
      [] name = "privilege_escalation" ->
            /\ CountOfGroups(ns, {"identity"}) >= 2
            /\ Len(ns) - CountOfGroups(ns, {"identity"}) >= 1
      [] name = "data_exfiltration" ->
            /\ CountOfGroups(ns, {"storage", "database"}) >= 1
            /\ CountOfGroups(ns, {"compute"}) >= 1

\* C3: each of the five patterns, called on a graph that does not meet its
\* resource-type precondition, returns None and leaves the node list and
\* the edge list exactly as they were; and a pattern that returns None has
\* changed nothing.
C3_UnmetPreconditionNoChange ==
    gen_pc = "pattern_done" =>
        /\ ~Precondition(pattern, pre_nodes) => result = None
        /\ result = None => (nodes = pre_nodes /\ edges = pre_edges)

\* insecure_configuration on a non-empty graph without storage node
C3_Witness ==
    /\ gen_pc = "pattern_done"
    /\ pattern = "insecure_configuration"
    /\ pre_nodes # <<>>
    /\ ~Precondition(pattern, pre_nodes)
    /\ result = None

\* C4: the graph-level label generate_dataset assigns is 1 exactly when a
\* pattern was injected (the anomalies list is non-empty and the pattern
\* changed the edge list), and 0 otherwise.
C4_GraphLabel ==
    gen_pc \in {"appended", "processed"} =>
        /\ label \in {0, 1}
        /\ label = 1 <=> anomalies # <<>>
        /\ label = 1 <=> (pattern # "none" /\ result # None
                           /\ edges # pre_edges)

\* a pattern was picked but its precondition was unmet: label 0
C4_Witness ==
    /\ gen_pc = "appended"
    /\ pattern # "none"
    /\ result = None
    /\ label = 0

\* C5: in a generated graph a node's label is 1 exactly when its id is in
\* the affected-node list of an injected descriptor, and 0 otherwise; the
\* node labels the dataset derives follow the same rule.
C5_NodeLabels ==
    /\ gen_pc \in {"appended", "processed"} =>
          \A k \in 1..Len(nodes) :
              /\ nodes[k].id \in DOMAIN node_labels
              /\ node_labels[nodes[k].id] =
                    (IF nodes[k].id \in Affected(anomalies) THEN 1 ELSE 0)
    /\ gen_pc = "processed" =>
          /\ Len(node_y) = Len(nodes)
          /\ \A k \in 1..Len(nodes) :
                node_y[k] =
                    (IF nodes[k].id \in Affected(anomalies) THEN 1 ELSE 0)

\* a processed graph with a privilege-escalation path: three nodes
\* labelled 1
C5_Witness ==
    /\ gen_pc = "processed"
    /\ pattern = "privilege_escalation"
    /\ Len(anomalies) = 1
    /\ \E k \in 1..Len(nodes) : node_y[k] = 1
    /\ Cardinality({k \in 1..Len(nodes) : node_y[k] = 1}) = 3

\* C6: every fit of the corpus yields the same node type and edge type
\* vocabularies (same values, same index for each value), whatever the
\* order in which the graphs, nodes and edges were iterated.
C6_FitDeterministic ==
    \A i \in 1..Len(fit_history) : \A j \in 1..Len(fit_history) :
        /\ fit_history[i].vocabulary = fit_history[j].vocabulary
        /\ fit_history[i].raised = fit_history[j].raised

\* two fits iterated the corpus in opposite orders, and the orders meet two
\* node types and two edge types in a different sequence
C6_Witness ==
    /\ Len(fit_history) >= 2
    /\ fit_history[1].reversed # fit_history[2].reversed
    /\ Len(SeenNodeTypes(corpus)) = 2
    /\ SeenNodeTypes(corpus) # SeenNodeTypes(Reversed(corpus))
    /\ Len(SeenEdgeTypes(corpus)) = 2
    /\ SeenEdgeTypes(corpus) # SeenEdgeTypes(Reversed(corpus))
    /\ raised = "none"

\* the row is all zeros for a value outside the mapping, and has a single 1
\* at the value's index otherwise
IsEncoding(row, mapping, value) ==
    /\ Len(row) = Cardinality(DOMAIN mapping)
    /\ \A c \in 1..Len(row) :
        row[c] = IF value \in DOMAIN mapping /\ c = mapping[value] + 1
                 THEN 1 ELSE 0

\* the edges of the graph whose two endpoints are ids of its nodes
RetainedEdges(graph) ==
    LET Inside(e) == e.from \in NodeIds(graph.nodes)
                     /\ e.to \in NodeIds(graph.nodes)
    IN  SelectSeq(graph.edges, Inside)

\* C7: process_graph raises nothing; the row of a node (of a retained edge)
\* whose type is not in the fitted mapping is all zeros, and the row of a
\* node (edge) of a known type has exactly one 1, at the type's index.
C7_UnknownCategoryZeroRow ==
    transform = "process_graph" =>
        /\ raised = "none"
        /\ Len(data.x.rows) = Len(graph_arg.nodes)
        /\ \A k \in 1..Len(graph_arg.nodes) :
            IsEncoding(data.x.rows[k], processor.node_type_mapping,
                       GetOrUnknown(graph_arg.nodes[k].group))
        /\ Len(data.edge_attr.rows) = Len(RetainedEdges(graph_arg))
        /\ \A j \in 1..Len(RetainedEdges(graph_arg)) :
            IsEncoding(data.edge_attr.rows[j], processor.edge_type_mapping,
                       GetOrUnknown(RetainedEdges(graph_arg)[j].label))

\* a fitted featurizer transformed a graph with a node of a known and a node
\* of an unknown type, a retained edge of a known and one of an unknown type
C7_Witness ==
    /\ transform = "process_graph"
    /\ processor.node_type_encoder = "fitted"
    /\ processor.edge_type_encoder = "fitted"
    /\ \E k \in 1..Len(graph_arg.nodes) :
        graph_arg.nodes[k].group \in DOMAIN processor.node_type_mapping
    /\ \E k \in 1..Len(graph_arg.nodes) :
        GetOrUnknown(graph_arg.nodes[k].group)
            \notin DOMAIN processor.node_type_mapping
    /\ \E j \in 1..Len(RetainedEdges(graph_arg)) :
        RetainedEdges(graph_arg)[j].label
            \in DOMAIN processor.edge_type_mapping
    /\ \E j \in 1..Len(RetainedEdges(graph_arg)) :
        RetainedEdges(graph_arg)[j].label
            \notin DOMAIN processor.edge_type_mapping

\* index of a node id in the node list
IndexOf(graph, id) ==
    (CHOOSE k \in 1..Len(graph.nodes) : graph.nodes[k].id = id) - 1

\* the Data object holds one edge index column per retained edge, in input
\* order, of shape (2, number of retained edges)
EdgeIndexOfRetained(graph, d) ==
    LET kept == RetainedEdges(graph)
    IN  /\ d.edge_index.shape = <<2, Len(kept)>>
        /\ Len(d.edge_index.rows) = 2
        /\ d.edge_index.rows[1] =
             [j \in 1..Len(kept) |-> IndexOf(graph, kept[j].from)]
        /\ d.edge_index.rows[2] =
             [j \in 1..Len(kept) |-> IndexOf(graph, kept[j].to)]

\* C8 for process_graph alone: no exception, one edge index column and one
\* edge feature row per retained edge, shapes (2, E) and (E, number of edge
\* types) also when E = 0.
C8_ProcessGraphSkipsDangling ==
    transform = "process_graph" =>
        /\ raised = "none"
        /\ EdgeIndexOfRetained(graph_arg, data)
        /\ data.edge_attr.shape =
             <<Len(RetainedEdges(graph_arg)),
               Cardinality(DOMAIN processor.edge_type_mapping)>>
        /\ Len(data.edge_attr.rows) = Len(RetainedEdges(graph_arg))

\* C8: a graph-to-tensor conversion (process_graph or
\* prepare_cloud_graph_data) raises no error on an edge whose source or
\* target is not a node of the graph, and its edge index holds exactly the
\* retained edges, in input order.
C8_DanglingEdgesSkipped ==
    transform \in {"process_graph", "prepare_cloud_graph_data"} =>
        /\ raised = "none"
        /\ EdgeIndexOfRetained(graph_arg, data)

\* C9: the vocabulary is fitted once, on the training graphs, and the
\* validation dataset, the test dataset and the inference engine featurize
\* with that same vocabulary.
C9_VocabularyFittedOnce ==
    /\ val_dataset.built =>
        Vocabulary(val_dataset.processor) = Vocabulary(train_dataset.processor)
    /\ test_dataset.built =>
        Vocabulary(test_dataset.processor)
            = Vocabulary(train_dataset.processor)
    /\ train_pc = "served" =>
        Vocabulary(graph_processor) = Vocabulary(train_dataset.processor)

\* the findings that name the node
FindingsOf(node_id) ==
    {j \in 1..Len(findings) : findings[j].node_id = node_id}

\* C10: when detect_anomalies returns, there is exactly one finding for
\* each node whose score is strictly greater than the threshold, none for
\* any other node, and the list is empty when no score exceeds it.
C10_OneFindingPerExceedingNode ==
    inf_pc = "returned" =>
        /\ \A k \in 1..Len(inf_graph.nodes) :
            Cardinality(FindingsOf(inf_graph.nodes[k].id))
                = IF predictions[k] > threshold THEN 1 ELSE 0
        /\ \A j \in 1..Len(findings) :
            findings[j].node_id \in NodeIds(inf_graph.nodes)
        /\ (\A k \in 1..Len(inf_graph.nodes) : predictions[k] <= threshold)
            => findings = <<>>

\* a call returned with a node above, a node at and a node below the
\* threshold
C10_Witness ==
    /\ inf_pc = "returned"
    /\ \E k \in 1..Len(inf_graph.nodes) : predictions[k] > threshold
    /\ \E k \in 1..Len(inf_graph.nodes) : predictions[k] = threshold
    /\ \E k \in 1..Len(inf_graph.nodes) : predictions[k] < threshold
    /\ Len(findings) = 1

\* the ids at the other end of the edges that touch the node
OtherEnds(graph, node_id) ==
    {graph.edges[k].to_id : k \in {i \in 1..Len(graph.edges) :
                                    graph.edges[i].from_id = node_id}}
    \cup {graph.edges[k].from_id : k \in {i \in 1..Len(graph.edges) :
                                    graph.edges[i].to_id = node_id}}

\* C11: the connected nodes of every finding are, as a set, the nodes at
\* the other end of the edges that touch the flagged node, whatever the
\* direction of the edge; for A -> B, B -> C with only B above the threshold
\* the findings are one finding for B with connected nodes {A, C}.
C11_ConnectedNodes ==
    inf_pc = "returned" =>
        /\ \A j \in 1..Len(findings) :
            Range(findings[j].connected_nodes)
                = OtherEnds(inf_graph, findings[j].node_id)
        /\ ( /\ Len(inf_graph.nodes) = 3
             /\ inf_graph.edges = <<InfEdge(NodeId(0), NodeId(1)),
                                    InfEdge(NodeId(1), NodeId(2))>>
             /\ predictions[1] <= threshold /\ predictions[2] > threshold
             /\ predictions[3] <= threshold )
            => /\ Len(findings) = 1
               /\ findings[1].node_id = NodeId(1)
               /\ Range(findings[1].connected_nodes) = {NodeId(0), NodeId(2)}

\* the call returned for A -> B, B -> C with only B above the threshold
C11_Witness ==
    /\ inf_pc = "returned"
    /\ Len(inf_graph.nodes) = 3
    /\ inf_graph.edges = <<InfEdge(NodeId(0), NodeId(1)),
                           InfEdge(NodeId(1), NodeId(2))>>
    /\ predictions[1] <= threshold /\ predictions[2] > threshold
    /\ predictions[3] <= threshold
    /\ Len(findings) = 1
    /\ findings[1].connected_nodes = <<NodeId(0), NodeId(2)>>

\* C12: the severity returned is critical for p > 0.9, high for
\* 0.7 < p <= 0.9, medium for 0.5 < p <= 0.7 and low otherwise.
C12_SeveritySteps ==
    sev_pc = "returned" =>
        severity = IF sev_confidence > 90 THEN "critical"
                   ELSE IF sev_confidence > 70 THEN "high"
                   ELSE IF sev_confidence > 50 THEN "medium"
                   ELSE "low"

\* C13: 0.95 is classified critical, 0.75 is classified high and exactly
\* 0.7 is classified high.
C13_SeverityPoints ==
    sev_pc = "returned" =>
        /\ sev_confidence = 95 => severity = "critical"
        /\ sev_confidence = 75 => severity = "high"
        /\ sev_confidence = 70 => severity = "high"

\* C14: with the default threshold 0.7 no finding returned by
\* detect_anomalies has severity medium.
C14_NoMediumFinding ==
    (inf_pc = "returned" /\ threshold = default_threshold) =>
        \A j \in 1..Len(findings) : findings[j].severity # "medium"

\* round(s / n) for s >= 0 and n > 0, a tie going to the even neighbour
RoundedQuotient(sum, n) ==
    LET q == sum \div n
        r == sum % n
    IN  IF 2 * r < n THEN q
        ELSE IF 2 * r > n THEN q + 1
        ELSE IF q % 2 = 0 THEN q ELSE q + 1

\* C15: after an analysis the risk score is min(100, round(mean of the
\* severity weights of the current anomalies)), and 0 without anomalies.
C15_RiskScoreRounded ==
    (api_pc = "done" /\ api_raised = "none") =>
        metrics.risk_score =
            IF api_anomalies = <<>> THEN 0
            ELSE Min(100, RoundedQuotient(WeightedSum(api_anomalies),
                                          Len(api_anomalies)))

\* the best validation AUC of the first n epochs, as train keeps it: it
\* starts at 0.0
RunningBest(s, n) ==
    LET seen == {0} \cup {s[i] : i \in 1..n}
    IN  CHOOSE m \in seen : \A x \in seen : x <= m

\* the last epoch (1-based) whose AUC is above the best before it; 0 if none
LastImprovement(s) ==
    LET ks == {k \in 1..Len(s) : s[k] > RunningBest(s, k - 1)}
    IN  IF ks = {} THEN 0 ELSE CHOOSE k \in ks : \A j \in ks : j <= k

\* train has returned
TrainReturned == tr_pc \in {"trained", "evaluate", "evaluated", "done", "raised"}

\* train halted at the end of epoch k + patience with the weights of epoch k
\* in the checkpoint, k being the last improving epoch
HaltsAfterPatience ==
    LET k == LastImprovement(val_aucs)
    IN  (TrainReturned /\ k >= 1 /\ num_epochs >= k + patience) =>
            /\ Len(val_aucs) = k + patience
            /\ checkpoint = StateDict(k)

\* C16 (as the code has it): with patience >= 1, if the validation AUC last
\* strictly improves at epoch k and num_epochs >= k + patience, train halts
\* at the end of epoch k + patience and the checkpoint holds the weights of
\* the end of epoch k.
C16_EarlyStoppingPositivePatience ==
    patience >= 1 => HaltsAfterPatience

\* C16 (as stated): the same for every patience, zero included.
C16_EarlyStopping ==
    HaltsAfterPatience

\* train stopped early, epochs after the last improvement were run, and the
\* checkpoint holds the weights of epoch 2 while the model holds later ones
C16_Witness ==
    /\ tr_pc = "trained"
    /\ patience >= 1
    /\ LastImprovement(val_aucs) = 2
    /\ Len(val_aucs) = 2 + patience
    /\ Len(val_aucs) < num_epochs
    /\ checkpoint = StateDict(2)
    /\ weights = Len(val_aucs)

\* C17: labels without a positive label give the sentinel 0.0 for AUC and AP
\* in validation and in evaluate, and the run raises nothing.
C17_NoPositiveSentinelNoRaise ==
    /\ ~val_has_positive =>
           \A i \in 1..Len(val_aucs) : val_aucs[i] = 0 /\ val_aps[i] = 0
    /\ (~test_has_positive /\ tr_pc \in {"evaluated", "done", "raised"}) =>
           eval_metrics.auc = 0 /\ eval_metrics.ap = 0
    /\ (~val_has_positive \/ ~test_has_positive) => tr_raised = "none"

\* C18: whenever training is interrupted, the file at the checkpoint path is
\* absent or a completely written best checkpoint.
C18_NoPartialCheckpoint ==
    tr_pc = "interrupted" => checkpoint.kind \in {"absent", "state_dict"}

\* the checkpoints the statement is about
BadModelFiles == {"missing", "module of other shape"}

\* every construction on a bad checkpoint raised and made no engine
BadCheckpointFails ==
    \A i \in 1..Len(loads) :
        loads[i].file \in BadModelFiles =>
            loads[i].raised # "none" /\ loads[i].engine = "None"

\* no construction follows one that raised
FailedLoadNotRetried ==
    \A i \in 1..Len(loads) : loads[i].raised # "none" => Len(loads) = i

\* C19: constructing the engine on a missing or shape-incompatible
\* checkpoint raises and produces no engine, and no load is attempted after
\* a failed one.
C19_BadCheckpointFailsOnce ==
    BadCheckpointFails /\ FailedLoadNotRetried

\* the (group, rule) occurrences of the argument: <<group id, rule>> per
\* position
RECURSIVE GroupRules(_)
GroupRules(sgs) ==
    IF sgs = <<>> THEN <<>>
    ELSE (IF "rules" \in Head(sgs).keys
          THEN [k \in 1..Len(Head(sgs).rules) |->
                    [id |-> Head(sgs).id, rule |-> Head(sgs).rules[k]]]
          ELSE <<>>)
         \o GroupRules(Tail(sgs))

AllGroupRules ==
    IF "security_groups" \in graph_data.keys
    THEN GroupRules(graph_data.security_groups) ELSE <<>>

PublicCidr(rule) == "cidr" \in rule.keys /\ rule.cidr \in {"0.0.0.0/0", "::/0"}

SensitivePortNumbers ==
    {22, 23, 3389, 1433, 3306, 5432, 27017, 6379, 9200, 5601}

SensitivePort(rule) == "port" \in rule.keys /\ rule.port \in SensitivePortNumbers

\* number of positions of s that satisfy Test
CountWhere(s, Test(_)) == Cardinality({k \in 1..Len(s) : Test(s[k])})

IsPublicFinding(f) == f.title = <<"Public Access in Security Group">>

IsExposedFinding(f) == Len(f.title) = 3 /\ f.title[1] = "Exposed" /\ f.title[3] = "Port"

\* C20: for every rule of every security group, analyze returns one high
\* 'Public Access in Security Group' finding iff the rule's CIDR is 0.0.0.0/0
\* or ::/0 and one critical 'Exposed <service> Port' finding iff its port is
\* a sensitive port, whatever the CIDR; the security-group findings number
\* the public rules plus the sensitive-port rules.
C20_SecurityGroupFindings ==
    net_pc = "returned" =>
        LET grs == AllGroupRules
            SameAs(gr) == {k \in 1..Len(grs) : grs[k] = gr}
            PublicFor(gr) ==
                {k \in 1..Len(net_result) :
                    /\ IsPublicFinding(net_result[k])
                    /\ net_result[k].severity = "high"
                    /\ net_result[k].resource_id = gr.id
                    /\ net_result[k].evidence = gr.rule}
            ExposedFor(gr) ==
                {k \in 1..Len(net_result) :
                    /\ IsExposedFinding(net_result[k])
                    /\ net_result[k].severity = "critical"
                    /\ net_result[k].resource_id = gr.id
                    /\ net_result[k].evidence = gr.rule}
            IsPublicGr(gr) == PublicCidr(gr.rule)
            IsSensitiveGr(gr) == SensitivePort(gr.rule)
            IsSgFinding(f) == IsPublicFinding(f) \/ IsExposedFinding(f)
        IN  /\ \A i \in 1..Len(grs) :
                /\ Cardinality(PublicFor(grs[i])) =
                       IF PublicCidr(grs[i].rule)
                       THEN Cardinality(SameAs(grs[i])) ELSE 0
                /\ Cardinality(ExposedFor(grs[i])) =
                       IF SensitivePort(grs[i].rule)
                       THEN Cardinality(SameAs(grs[i])) ELSE 0
            /\ CountWhere(net_result, IsSgFinding) =
                   CountWhere(grs, IsPublicGr) + CountWhere(grs, IsSensitiveGr)
            /\ CountWhere(net_result, IsPublicFinding) =
                   CountWhere(grs, IsPublicGr)
            /\ CountWhere(net_result, IsExposedFinding) =
                   CountWhere(grs, IsSensitiveGr)

\* a sensitive port on a private range was reported as exposed and not as
\* public, next to a rule with a finding of neither kind, and findings of an
\* earlier call were dropped
C20_Witness ==
    /\ net_pc = "returned"
    /\ "security_groups" \in graph_data.keys
    /\ Len(graph_data.security_groups) = 2
    /\ LET rules == graph_data.security_groups[1].rules
       IN  /\ Len(rules) = 2
           /\ rules[1] = [keys |-> {"port", "cidr"}, port |-> 5432,
                          cidr |-> "10.0.0.0/16"]
           /\ rules[2] = [keys |-> {"port", "cidr"}, port |-> 80,
                          cidr |-> "10.0.0.0/16"]
    /\ \E k \in 1..Len(net_result) :
           /\ net_result[k].title = <<"Exposed", "PostgreSQL", "Port">>
           /\ net_result[k].severity = "critical"
           /\ net_result[k].resource_id = "sg-1"
    /\ \A k \in 1..Len(net_result) : net_result[k].resource_id # "sg-0"
    /\ CountWhere(net_result, IsExposedFinding) = 2
    /\ CountWhere(net_result, IsPublicFinding) = 1

\* a trust statement that names one service principal for sts:AssumeRole
\* under a StringEquals aws:SourceArn condition
ProperTrustStatement(st) ==
    /\ st.keys = {"Effect", "Principal", "Action", "Condition"}
    /\ st.Principal = DictPrincipal({"Service"}, "",
                                    PyStr("lambda.amazonaws.com"))
    /\ st.Action = "sts:AssumeRole"
    /\ "StringEquals" \in st.Condition.keys
    /\ "aws:SourceArn" \in st.Condition.StringEquals

\* a policy statement that allows one named action on one resource ARN
\* other than '*'
ProperPolicyStatement(st) ==
    /\ st.keys = {"Effect", "Action", "Resource"}
    /\ st.Action = PyStr(NamedAction)
    /\ st.Resource \in {PyStr(PlainArn), PyStr(LogGroupArn)}

ProperIamGraph ==
    LET role == graph_data.iam_roles[1]
        user == graph_data.iam_users[1]
    IN  /\ role.trust_policy.keys = {"Statement"}
        /\ ProperTrustStatement(role.trust_policy.Statement[1])
        /\ Len(role.attached_policies) = 1
        /\ role.attached_policies[1].keys = {"name", "Statement"}
        /\ ProperPolicyStatement(role.attached_policies[1].Statement[1])
        /\ "create_date" \in user.access_keys[1].keys
        /\ graph_data.now - user.access_keys[1].create_date
               <= MAX_KEY_AGE_DAYS * HalfDaysPerDay

\* C21: IAMAnalyzer.analyze returns no finding for a properly configured
\* role (specific service principal, sts:AssumeRole under StringEquals
\* aws:SourceArn, one named action on an ARN other than '*', an ARN ending
\* in ':*' included) together with a user whose key is at most 90 days old.
C21_ProperIamNoFindings ==
    (net_pc = "returned" /\ ProperIamGraph) => net_result = <<>>

\* the same without the ARN that ends in ':*'
C21_ProperIamPlainArn ==
    (/\ net_pc = "returned" /\ ProperIamGraph
     /\ graph_data.iam_roles[1].attached_policies[1].Statement[1].Resource
            = PyStr(PlainArn))
        => net_result = <<>>

\* the loop of train is between two epochs or has ended
BetweenEpochs == tr_pc = "epoch" \/ TrainReturned

\* the number of epochs run since the last improving one
EpochsSinceImprovement == Len(val_aucs) - LastImprovement(val_aucs)

\* a checkpoint exists exactly when an epoch improved, and it is the one
\* written at the end of the last improving epoch; the tracked best is the
\* maximum seen
CheckpointTracksImprovement ==
    BetweenEpochs =>
        /\ best_val_auc = RunningBest(val_aucs, Len(val_aucs))
        /\ (LastImprovement(val_aucs) = 0) = (checkpoint = NoFile)
        /\ LastImprovement(val_aucs) >= 1 =>
               /\ checkpoint.kind = "state_dict"
               /\ checkpoint.weights = LastImprovement(val_aucs)

\* the loop goes on while fewer than patience epochs in a row did not
\* improve, and ends when their number reaches patience
StopsAfterPatience ==
    /\ tr_pc = "epoch" => EpochsSinceImprovement < patience
    /\ TrainReturned =>
           EpochsSinceImprovement >= patience \/ Len(val_aucs) = num_epochs

\* C22, the part the code has, for patience >= 1: a checkpoint of the
\* weights is written exactly at the improving epochs, the tracked best is
\* the maximum, and training stops at patience non-improving epochs in a row
C22_WeightsCheckpointOnImprovement ==
    /\ CheckpointTracksImprovement
    /\ patience >= 1 => StopsAfterPatience

\* C22: a full checkpoint, the weights together with the hyperparameter
\* descriptor, is written at the end of an epoch iff its validation AUC is
\* above the best of the earlier epochs; the tracked best is the maximum
\* seen; training stops as soon as patience (>= 1) epochs in a row did not
\* improve.
C22_FullCheckpointOnImprovement ==
    /\ CheckpointTracksImprovement
    /\ patience >= 1 => StopsAfterPatience
    /\ (BetweenEpochs /\ checkpoint # NoFile) =>
           checkpoint.holds = {"weights", "hyperparameters"}

\* the groups of a graph's nodes and the labels of its edges
GroupsOf(g) == {g.nodes[k].group : k \in 1..Len(g.nodes)} \ {NoKey}

LabelsOf(g) == {g.edges[k].label : k \in 1..Len(g.edges)} \ {NoKey}

\* C23: an engine whose featurizer was never fitted fits it on the first
\* graph submitted, and no later call fits it again: after any number of
\* calls the vocabulary is the one of the first graph, and a call that
\* returns has featurized its graph with that vocabulary.
C23_FittedOnFirstGraphOnly ==
    corpus # <<>> =>
        LET first == fit_encoders(NewCloudResourceGraph, <<corpus[1]>>).self
        IN  /\ DOMAIN graph_processor.node_type_mapping = GroupsOf(corpus[1])
            /\ DOMAIN graph_processor.edge_type_mapping = LabelsOf(corpus[1])
            /\ Vocabulary(graph_processor) = Vocabulary(first)
            /\ raised = "none" =>
                   data = process_graph(first, corpus[Len(corpus)])

\* a later graph with types the first one lacks was featurized without a
\* refit: its 'identity' node has a row of zeros
C23_Witness ==
    /\ Len(corpus) = MaxCalls
    /\ GroupsOf(corpus[1]) = {"compute", "storage"}
    /\ GroupsOf(corpus[Len(corpus)]) = {"storage", "identity"}
    /\ raised = "none"
    /\ DOMAIN graph_processor.node_type_mapping = {"compute", "storage"}
    /\ data.x.rows[2] = <<0, 0>>

\* the positions of a file access in the steps of a construction
StepsAt(steps, what) == {k \in 1..Len(steps) : steps[k] = what}

\* C24: whenever the engine loads a checkpoint, the hyperparameter
\* descriptor is read first and the weights applied after it; weights are
\* never loaded before or without the descriptor.
C24_DescriptorBeforeWeights ==
    \A i \in 1..Len(loads) :
        loads[i].file # "missing" =>
            /\ StepsAt(loads[i].steps, "json.load") # {}
            /\ \A w \in StepsAt(loads[i].steps, "torch.load") :
                   \E d \in StepsAt(loads[i].steps, "json.load") : d < w

\* the labels of the edges a pattern variant appends to a graph with the
\* nodes ns, by the type its descriptor carries
VariantEdgeLabels(type, ns) ==
    CASE type = "excessive_permissions" ->
             [k \in 1..Min(5, CountOfGroups(ns, {"storage", "database"}))
                 |-> "writes"]
      [] type = "unusual_access" -> <<"executes">>
      [] type = "insecure_configuration" -> <<"reads">>
      [] type = "privilege_escalation" -> <<"writes", "trusts">>
      [] type = "data_exfiltration" -> <<"reads", "writes">>
      [] OTHER -> <<>>

\* the edges of the returned graph after those the random loops drew
AddedEdges == SubSeq(edges, Len(pre_edges) + 1, Len(edges))

\* C25: generate_graph applies at most one pattern: anomalies has length 0 or
\* 1, and with length 1 the edges added to the randomly drawn ones are
\* exactly the edges of the one variant the descriptor names; with length 0
\* no edge was added.
C25_AtMostOnePattern ==
    gen_pc # "generate" =>
        /\ Len(anomalies) \in {0, 1}
        /\ Len(edges) >= Len(pre_edges)
        /\ SubSeq(edges, 1, Len(pre_edges)) = pre_edges
        /\ Len(anomalies) = 0 => edges = pre_edges /\ nodes = pre_nodes
        /\ Len(anomalies) = 1 =>
               /\ anomalies[1].type = pattern
               /\ [k \in 1..Len(AddedEdges) |-> AddedEdges[k].label]
                      = VariantEdgeLabels(anomalies[1].type, pre_nodes)
               /\ \A k \in 1..Len(AddedEdges) :
                      /\ AddedEdges[k].id[1] = "anomaly-edge"
                      /\ {AddedEdges[k].from, AddedEdges[k].to}
                             \subseteq Range(anomalies[1].affected_nodes)
                                       \cup {public_node_id}

\* a graph with random edges into which the two edges of a data
\* exfiltration path, and nothing else, were injected
C25_Witness ==
    /\ gen_pc = "appended"
    /\ pre_edges # <<>>
    /\ Len(anomalies) = 1
    /\ anomalies[1].type = "data_exfiltration"
    /\ Len(edges) = Len(pre_edges) + 2

\* C26: no edge of a generated graph is a self-loop, whether drawn at random
\* or added by a pattern.
C26_NoSelfLoop ==
    gen_pc # "generate" =>
        \A k \in 1..Len(edges) : edges[k].from # edges[k].to

\* a graph with a random edge and an unusual-access edge between two
\* compute nodes
C26_Witness ==
    /\ gen_pc = "appended"
    /\ pre_edges # <<>>
    /\ Len(anomalies) = 1
    /\ anomalies[1].type = "unusual_access"
    /\ edges[Len(edges)].label = "executes"
    /\ edges[Len(edges)].from # edges[Len(edges)].to

\* C27: in a returned graph node ids are pairwise distinct (so the two
\* singleton nodes occur at most once), edge ids are pairwise distinct, and
\* node_labels has an entry for each node, a singleton added by a pattern
\* included, and for no other id.
C27_DistinctIdsAndLabelDomain ==
    gen_pc # "generate" =>
        /\ \A j, k \in 1..Len(nodes) : nodes[j].id = nodes[k].id => j = k
        /\ \A j, k \in 1..Len(edges) : edges[j].id = edges[k].id => j = k
        /\ DOMAIN node_labels = NodeIds(nodes)
        /\ \A id \in DOMAIN node_labels : node_labels[id] \in {0, 1}

\* a privilege-escalation path (two edges numbered from one count) next to
\* random edges, every node labelled
C27_Witness ==
    /\ gen_pc = "appended"
    /\ pattern = "privilege_escalation" /\ Len(anomalies) = 1
    /\ pre_edges # <<>>
    /\ Len(edges) = Len(pre_edges) + 2
    /\ edges[Len(edges)].id # edges[Len(edges) - 1].id
    /\ DOMAIN node_labels = NodeIds(nodes)

\* a request that finds an analysis scheduled or running adds no task
NoSecondAnalysis ==
    (pending # <<>> \/ analysis_in_progress) => Len(pending') <= Len(pending)

\* a task was taken from the scheduled ones and ran
AnalysisRan == Len(pending') < Len(pending)

\* what holds of the flag in the code: no handler finds it set, and it is
\* clear after every analysis, whether the analysis completed or failed
C28_FlagClearAfterAnalysis ==
    /\ [](api_pc = "serving" => ~analysis_in_progress)
    /\ [][AnalysisRan => ~analysis_in_progress']_vars

\* C28: at most one analysis at a time: a POST /api/analyze that arrives
\* while an analysis is scheduled or running schedules no second one, and
\* analysis_in_progress is false after every analysis, completed or failed.
C28_AtMostOneAnalysis ==
    /\ [][NoSecondAnalysis]_vars
    /\ [][AnalysisRan => ~analysis_in_progress']_vars

\* count, critical count and score of a metrics dict agree with a findings
\* list
MetricsAgree(m, anoms) ==
    /\ m.anomalies_detected = Len(anoms)
    /\ m.critical_alerts =
           Cardinality({k \in 1..Len(anoms) : anoms[k].severity = "critical"})
    /\ m.critical_alerts <= m.anomalies_detected
    /\ 0 <= m.risk_score /\ m.risk_score <= 100

\* C29: in every state a GET handler can observe, metrics agrees with the
\* findings (anomalies_detected is their number, critical_alerts the number
\* of critical ones, risk_score lies in 0..100), a GET /api/metrics answer
\* is in range too, and a failed analysis changes neither findings nor
\* metrics.
C29_MetricsMatchFindings ==
    /\ [](api_pc = "serving" =>
            /\ MetricsAgree(metrics, api_anomalies)
            /\ response.handler = "get_metrics" =>
                   /\ response.metrics.critical_alerts
                          <= response.metrics.anomalies_detected
                   /\ response.metrics.risk_score \in 0..100)
    /\ [][(AnalysisRan /\ api_raised' # "none") =>
              UNCHANGED <<api_anomalies, metrics>>]_vars

\* GET /api/metrics answered after an analysis that found two findings, one
\* of them critical, and a later analysis that failed
C29_Witness ==
    /\ api_pc = "serving"
    /\ Len(api_anomalies) = 2
    /\ metrics.critical_alerts = 1
    /\ api_raised = "Exception"
    /\ response.handler = "get_metrics"
    /\ response.metrics = metrics

\* the resource types of a state dict, and its resources of one type
TypesOf(items) == {items[k].type : k \in 1..Len(items)}

\* the resource of an id among the resources of one type, as a set of at
\* most one dict
ResourceOf(items, type, id) ==
    {r \in Range(StateGet(items, type)) : ItemOf(r, "id") = id}

IdsOf(items, type) ==
    {ItemOf(r, "id") : r \in Range(StateGet(items, type))}

\* two dicts are equal when they hold the same items, in whatever order
SameConfiguration(a, b) == Range(a) = Range(b)

\* the change types the returned list holds for one resource, in order
ChangesFor(type, id) ==
    LET Mine(c) == c.resource_type = type /\ c.resource_id = id
        mine == SelectSeq(new_changes, Mine)
    IN  [k \in 1..Len(mine) |-> mine[k].change_type]

\* what one resource of the given types must have in the returned list
ExpectedFor(type, id) ==
    LET cur == ResourceOf(current_state, type, id)
        prev == ResourceOf(previous_state.items, type, id)
    IN  CASE cur # {} /\ prev = {} -> <<"added">>
          [] cur = {} /\ prev # {} -> <<"deleted">>
          [] cur # {} /\ prev # {} /\
             (\E c \in cur : \E p \in prev : ~SameConfiguration(c, p))
                -> <<"modified">>
          [] OTHER -> <<>>

ExactChanges(types) ==
    /\ \A type \in types :
         \A id \in IdsOf(current_state, type)
                    \cup IdsOf(previous_state.items, type) :
            ChangesFor(type, id) = ExpectedFor(type, id)
    /\ \A k \in 1..Len(new_changes) : new_changes[k].resource_type \in types

\* the list returned is the end of the history, and the file holds the
\* history
HistoryHoldsReturned ==
    /\ Len(changes) >= Len(new_changes)
    /\ SubSeq(changes, Len(changes) - Len(new_changes) + 1, Len(changes))
           = new_changes
    /\ storage = changes

\* what the code does: the three kinds of change are exact for the resource
\* types that are keys of the current state, and the history only grows
C30_ExactChangesOfCurrentTypes ==
    /\ [](ct_pc = "returned" =>
            /\ previous_state.given => ExactChanges(TypesOf(current_state))
            /\ HistoryHoldsReturned)
    /\ [][Len(changes') >= Len(changes)
          /\ SubSeq(changes', 1, Len(changes)) = changes]_vars

\* C30: track_changes with a previous state returns exactly one added change
\* per id only in current, one modified change per id in both whose
\* configuration differs, one deleted change per id only in previous, for
\* every resource type of either state, and nothing for an unchanged
\* resource; the returned changes are appended to the history, which never
\* loses an entry.
C30_ExactChangesOfAllTypes ==
    /\ [](ct_pc = "returned" =>
            /\ previous_state.given =>
                   ExactChanges(TypesOf(current_state)
                                \cup TypesOf(previous_state.items))
            /\ HistoryHoldsReturned)
    /\ [][Len(changes') >= Len(changes)
          /\ SubSeq(changes', 1, Len(changes)) = changes]_vars

====
